---- MODULE Spec2Model ----
(***************************************************************************)
(* InheritVault: the on-chain vault protocol layer.                        *)
(*                                                                         *)
(*   - the cell data codec (codec.ts): encodeVaultCellData,                *)
(*     decodeVaultCellData, isVaultCell, VAULT_DATA_PREFIX;                *)
(*   - the timelock encoder (ccc.ts): the since value of a claim and       *)
(*     isUnlockConditionSatisfied;                                         *)
(*   - the chain query client (ckb.ts): isCellLive over rpcCall;           *)
(*   - the vault resolver (vaultIndexer.ts): fetchVaultFromTransaction,    *)
(*     fetchVaultsForLockScript and its unfiltered fallback scan.          *)
(*                                                                         *)
(* JavaScript strings are sequences of UTF-16 code units (integers), byte  *)
(* arrays are sequences of 0..255, and a hex string is a sequence of       *)
(* one-character strings.  JavaScript values are records [t, v] tagged     *)
(* with their type.                                                        *)
(***************************************************************************)
EXTENDS Integers, Sequences, FiniteSets, TLC

VARIABLES
  \* ---- codec ----
  cArgs,      \* arguments of buildCreateVaultTransaction (owner, name, memo, unlock)
  cPayload,   \* the VaultCellPayload handed to encodeVaultCellData (for a
              \* foreign cell: the JSON object its writer stored)
  cData,      \* the output_data hex string under examination
  cOrigin,    \* where cData comes from: "none", "encoded", "truncated", ...
  cDecoded,   \* result of decodeVaultCellData(cData), NotRun before the call
  cIsVault,   \* result of isVaultCell(cData), NotRun before the call
  \* ---- timelock ----
  tUnlock,    \* the UnlockCondition
  tTip,       \* the chain tip: [blockNumber, timestamp]
  tSince,     \* the since value put on the vault input (four 16-bit limbs), NotRun before
  tSatisfied, \* result of isUnlockConditionSatisfied, NotRun before the call
  \* ---- fetchVaultFromTransaction ----
  rPc,        \* "idle", "awaitTx", "awaitLive", "done"
  rQuery,     \* the arguments [txHash, index]
  rTxResp,    \* the response to its get_transaction request, NotRun before it came
  rTx,        \* the get_transaction result the call works on
  rLiveResp,  \* the response to its get_live_cell request, NotRun if none came
  rRequests,  \* the JSON-RPC methods the call has requested, in order
  rResult,    \* what the call returned: a VaultFromTx, Null, or Threw
  \* ---- isCellLive ----
  lPc,        \* "idle", "awaitLive", "done"
  lResp,      \* the response to its get_live_cell request
  lResult,    \* what the call returned
  \* ---- fetchVaultsForLockScript ----
  eLedger,    \* the live cells under the lock script: [count, pattern]
  ePc,        \* "idle", "filtered", "fallback", "returned", "threw"
  eCursor,    \* the cursor variable of the running scan
  eVaults,    \* the vaults array of the running scan
  eRequests,  \* the get_cells requests the call has issued, in order
  eLog,       \* how each request was answered, in the order of the answers
  eResult,    \* what the call returned: the vaults, or Threw
  eCapable,   \* the result of the last call whose filtered queries were all answered
  eRejecting, \* the result of the last call whose filtered query was refused
              \* and whose unfiltered queries were all answered
  \* ---- calculateMinCapacityCKB ----
  kPayloads,  \* two payloads the capacity is asked for
  kMin,       \* calculateMinCapacityCKB of each, NotRun before the calls
  \* ---- JSON-RPC request ids ----
  nNow,       \* the clock Date.now() reads, in milliseconds since the page opened
  nIssued,    \* the requests sent so far, in order: [method, id]
  \* ---- getCellByOutPoint ----
  oLedger,    \* the live cells the indexer knows: [count, pattern]
  oQuery,     \* the outpoint asked for: [txHash, index]
  oHistory,   \* the outpoint on the chain: "live", "spent", "nooutput", "notx"
  oPc,        \* "idle", "awaitIndexer", "awaitRpc", "done"
  oIndexerResp, \* the response to the get_cells request, NotRun before it came
  oRpcResp,   \* the response to the get_transaction request, NotRun if none came
  oResult,    \* what the call returned: a cell or Null, NotRun before
  \* ---- the pages over one vault outpoint ----
  gTx,        \* the creating transaction on the chain: "unknown", "pending", ...
  gClaim,     \* the claiming transaction: "none", "sent", "committed"
  gTip,       \* the block number of the chain tip
  gSigner,    \* the address of the connected wallet (a string), Null if none
  gStore,     \* the VaultRecord localStorage holds for the outpoint, Null if none
  gPages,     \* the state of each open VaultDetailPage
  gMails,     \* the vault-claimable emails the email API has sent
  gRecorded   \* the status the last step recorded and the resolve result it
              \* came from, NotRun if the step recorded none

codecVars == <<cArgs, cPayload, cData, cOrigin, cDecoded, cIsVault>>
timelockVars == <<tUnlock, tTip, tSince, tSatisfied>>
resolveVars == <<rPc, rQuery, rTxResp, rTx, rLiveResp, rRequests, rResult>>
liveVars == <<lPc, lResp, lResult>>
enumVars == <<eLedger, ePc, eCursor, eVaults, eRequests, eLog, eResult, eCapable, eRejecting>>

capacityVars == <<kPayloads, kMin>>
idsVars == <<nNow, nIssued>>
outPointVars == <<oLedger, oQuery, oHistory, oPc, oIndexerResp, oRpcResp, oResult>>
pagesVars == <<gTx, gClaim, gTip, gSigner, gStore, gPages, gMails, gRecorded>>

vars == <<codecVars, timelockVars, resolveVars, liveVars, enumVars, capacityVars, idsVars, outPointVars, pagesVars>>
\* what each component's actions leave alone
nonCodecVars == <<timelockVars, resolveVars, liveVars, enumVars, capacityVars, idsVars, outPointVars, pagesVars>>
nonTimelockVars == <<codecVars, resolveVars, liveVars, enumVars, capacityVars, idsVars, outPointVars, pagesVars>>
nonResolveVars == <<codecVars, timelockVars, liveVars, enumVars, capacityVars, idsVars, outPointVars, pagesVars>>
nonLiveVars == <<codecVars, timelockVars, resolveVars, enumVars, capacityVars, idsVars, outPointVars, pagesVars>>
nonEnumVars == <<codecVars, timelockVars, resolveVars, liveVars, capacityVars, idsVars, outPointVars, pagesVars>>
nonCapacityVars == <<codecVars, timelockVars, resolveVars, liveVars, enumVars, idsVars, outPointVars, pagesVars>>
nonIdsVars == <<codecVars, timelockVars, resolveVars, liveVars, enumVars, capacityVars, outPointVars, pagesVars>>
nonOutPointVars == <<codecVars, timelockVars, resolveVars, liveVars, enumVars, capacityVars, idsVars, pagesVars>>
nonPagesVars == <<codecVars, timelockVars, resolveVars, liveVars, enumVars, capacityVars, idsVars, outPointVars>>

(***************************************************************************)
(* Generic helpers                                                         *)
(***************************************************************************)
Min(a, b) == IF a < b THEN a ELSE b

\* a value no operation returns: "this call has not run"
NotRun == [t |-> "notrun", v |-> <<>>]
\* the call ended by throwing to its caller
Threw == [t |-> "threw", v |-> <<>>]

\* F(x), with x evaluated once, before F is applied to it
WithValue(x, F(_)) == CHOOSE r \in {F(v) : v \in {x}} : TRUE

\* String.prototype.slice(a, b) / Array slice on a sequence, 0-based, clamped
Slice(s, a, b) == SubSeq(s, a + 1, Min(b, Len(s)))
SliceFrom(s, a) == SubSeq(s, a + 1, Len(s))

\* the concatenation of the sequences ss[lo..hi], by halves
RECURSIVE ConcatRange(_, _, _)
ConcatRange(ss, lo, hi) ==
  IF lo > hi THEN <<>>
  ELSE IF lo = hi THEN ss[lo]
  ELSE LET mid == (lo + hi) \div 2
       IN ConcatRange(ss, lo, mid) \o ConcatRange(ss, mid + 1, hi)
Concat(ss) == ConcatRange(ss, 1, Len(ss))

(***************************************************************************)
(* JavaScript values                                                       *)
(***************************************************************************)
Undefined == [t |-> "undefined", v |-> <<>>]
Null == [t |-> "null", v |-> <<>>]
JStr(s) == [t |-> "string", v |-> s]
JNum(n) == [t |-> "number", v |-> n]
\* a number literal with a fraction or an exponent, kept as its lexeme
JNumLex(lex) == [t |-> "numlex", v |-> lex]
JBool(b) == [t |-> "boolean", v |-> b]
\* an object is its own properties in insertion order: <<key, value>> pairs
JObj(entries) == [t |-> "object", v |-> entries]
JArr(items) == [t |-> "array", v |-> items]

\* ToBoolean, as used by `||` and `if (x)`
Truthy(x) ==
  CASE x.t = "undefined" -> FALSE
    [] x.t = "null" -> FALSE
    [] x.t = "string" -> x.v # <<>>
    [] x.t = "number" -> x.v # 0
    [] x.t = "numlex" -> \E i \in 1..Len(x.v) : x.v[i] \in 49..57
    [] x.t = "boolean" -> x.v
    [] OTHER -> TRUE

\* a || b
OrElse(a, b) == IF Truthy(a) THEN a ELSE b

\* json.key throws a TypeError when json is null or undefined
PropertyAccessThrows(x) == x.t \in {"null", "undefined"}

\* json.key for one of the codec's keys: the last own property of that name of
\* an object, undefined on every other value (primitives and arrays have no
\* property named oa, on, ut, uv or m)
RECURSIVE LookupEntry(_, _)
LookupEntry(entries, key) ==
  IF entries = <<>> THEN Undefined
  ELSE LET last == entries[Len(entries)]
       IN IF last[1] = key THEN last[2]
          ELSE LookupEntry(SubSeq(entries, 1, Len(entries) - 1), key)

GetProp(x, key) == IF x.t = "object" THEN LookupEntry(x.v, key) ELSE Undefined

(***************************************************************************)
(* Character codes used by the codec and by JSON                           *)
(***************************************************************************)
CH == [quote |-> 34, backslash |-> 92, slash |-> 47, lbrace |-> 123, rbrace |-> 125,
       lbracket |-> 91, rbracket |-> 93, colon |-> 58, comma |-> 44, minus |-> 45,
       plus |-> 43, dot |-> 46, zero |-> 48, nine |-> 57, space |-> 32, tab |-> 9,
       lf |-> 10, cr |-> 13, bs |-> 8, ff |-> 12,
       a |-> 97, b |-> 98, e |-> 101, f |-> 102, l |-> 108, n |-> 110, r |-> 114,
       s |-> 115, t |-> 116, u |-> 117, E |-> 69, replacement |-> 65533, bom |-> 65279]

\* the property keys and the UnlockType literals, as code units
K_oa == <<111, 97>>
K_on == <<111, 110>>
K_ut == <<117, 116>>
K_uv == <<117, 118>>
K_m == <<109>>
S_blockHeight == <<98, 108, 111, 99, 107, 72, 101, 105, 103, 104, 116>>
S_timestamp == <<116, 105, 109, 101, 115, 116, 97, 109, 112>>

(***************************************************************************)
(* Hex strings                                                             *)
(***************************************************************************)
HexDigits == <<"0", "1", "2", "3", "4", "5", "6", "7", "8", "9", "a", "b", "c", "d", "e", "f">>
UpperLetters == <<"A", "B", "C", "D", "E", "F", "X">>
LowerLetters == <<"a", "b", "c", "d", "e", "f", "x">>

\* Number.prototype.toString(16).padStart(2, "0") of a byte
ToHex2(b) == <<HexDigits[(b \div 16) + 1], HexDigits[(b % 16) + 1]>>

\* String.prototype.toLowerCase, one character
ToLowerChar(c) ==
  IF \E i \in 1..Len(UpperLetters) : UpperLetters[i] = c
  THEN LowerLetters[CHOOSE i \in 1..Len(UpperLetters) : UpperLetters[i] = c]
  ELSE c
ToLowerCase(s) == [i \in 1..Len(s) |-> ToLowerChar(s[i])]

\* the value of a radix-16 digit, -1 for every other character
HexVal(c) ==
  LET lc == ToLowerChar(c)
  IN IF c # "X" /\ \E i \in 1..16 : HexDigits[i] = lc
     THEN (CHOOSE i \in 1..16 : HexDigits[i] = lc) - 1
     ELSE -1

\* parseInt(s, 16) of a slice of at most two characters: an optional 0x prefix
\* is skipped, then the longest run of radix-16 digits is read; no digit: NaN
ParseInt16(s) ==
  LET t == IF Len(s) >= 2 /\ s[1] = "0" /\ s[2] \in {"x", "X"} THEN SliceFrom(s, 2) ELSE s
  IN IF t = <<>> \/ HexVal(t[1]) < 0 THEN [nan |-> TRUE, v |-> 0]
     ELSE IF Len(t) = 1 \/ HexVal(t[2]) < 0 THEN [nan |-> FALSE, v |-> HexVal(t[1])]
     ELSE [nan |-> FALSE, v |-> 16 * HexVal(t[1]) + HexVal(t[2])]

\* storing a number into a Uint8Array element: NaN becomes 0
ToUint8(p) == IF p.nan THEN 0 ELSE p.v % 256

\* hex.startsWith("0x")
StartsWith0x(hex) == Len(hex) >= 2 /\ hex[1] = "0" /\ hex[2] = "x"
Strip0x(hex) == IF StartsWith0x(hex) THEN SliceFrom(hex, 2) ELSE hex

\* Array.from(bytes).map(b => b.toString(16).padStart(2, "0")).join("")
BytesToHex(bytes) == Concat([i \in 1..Len(bytes) |-> ToHex2(bytes[i])])

\* new Uint8Array(jsonHex.length / 2) filled by parseInt of each pair: the
\* length is truncated to an integer, so a trailing odd character is not read
HexToBytes(jsonHex) ==
  WithValue(jsonHex, LAMBDA h :
    <<>> \o [i \in 1..(Len(h) \div 2) |-> ToUint8(ParseInt16(Slice(h, (i - 1) * 2, (i - 1) * 2 + 2)))])

(***************************************************************************)
(* UTF-8: TextEncoder.encode and TextDecoder.decode                        *)
(***************************************************************************)
IsHighSurrogate(c) == c \in 55296..56319
IsLowSurrogate(c) == c \in 56320..57343

EncodeCodePoint(cp) ==
  IF cp < 128 THEN <<cp>>
  ELSE IF cp < 2048 THEN <<192 + (cp \div 64), 128 + (cp % 64)>>
  ELSE IF cp < 65536
       THEN <<224 + (cp \div 4096), 128 + ((cp \div 64) % 64), 128 + (cp % 64)>>
       ELSE <<240 + (cp \div 262144), 128 + ((cp \div 4096) % 64),
              128 + ((cp \div 64) % 64), 128 + (cp % 64)>>

\* TextEncoder.encode: a surrogate pair is one code point, a lone surrogate
\* is replaced by U+FFFD. EncodeUnit is what the code unit s[i] contributes:
\* the low half of a pair contributes nothing, its high half the whole pair
EncodeUnit(s, i) ==
  LET c == s[i]
  IN IF IsHighSurrogate(c) /\ i < Len(s) /\ IsLowSurrogate(s[i + 1])
     THEN EncodeCodePoint(65536 + (c - 55296) * 1024 + (s[i + 1] - 56320))
     ELSE IF IsLowSurrogate(c) /\ i > 1 /\ IsHighSurrogate(s[i - 1]) THEN <<>>
     ELSE IF IsHighSurrogate(c) \/ IsLowSurrogate(c) THEN EncodeCodePoint(CH.replacement)
     ELSE EncodeCodePoint(c)
TextEncode(s) == Concat([i \in 1..Len(s) |-> EncodeUnit(s, i)])

\* the UTF-8 decoder of the Encoding standard (non-fatal). Utf8Zero is the
\* decoder between two code points; Utf8Handle is its handler for one byte:
\* the code points it emits and the state it leaves. An ill-formed sequence
\* yields U+FFFD and the offending byte is handled again from Utf8Zero
Utf8Zero == [cp |-> 0, seen |-> 0, needed |-> 0, lower |-> 128, upper |-> 191]
Utf8Lead(b) ==
  CASE b <= 127 -> [out |-> <<b>>, st |-> Utf8Zero]
    [] b \in 194..223 -> [out |-> <<>>, st |-> [Utf8Zero EXCEPT !.cp = b - 192, !.needed = 1]]
    [] b \in 224..239 ->
         [out |-> <<>>,
          st |-> [cp |-> b - 224, seen |-> 0, needed |-> 2,
                  lower |-> IF b = 224 THEN 160 ELSE 128,
                  upper |-> IF b = 237 THEN 159 ELSE 191]]
    [] b \in 240..244 ->
         [out |-> <<>>,
          st |-> [cp |-> b - 240, seen |-> 0, needed |-> 3,
                  lower |-> IF b = 240 THEN 144 ELSE 128,
                  upper |-> IF b = 244 THEN 143 ELSE 191]]
    [] OTHER -> [out |-> <<CH.replacement>>, st |-> Utf8Zero]
Utf8Handle(st, b) ==
  IF st.needed = 0 THEN Utf8Lead(b)
  ELSE IF b \notin st.lower..st.upper
       THEN [out |-> <<CH.replacement>> \o Utf8Lead(b).out, st |-> Utf8Lead(b).st]
       ELSE IF st.seen + 1 # st.needed
            THEN [out |-> <<>>,
                  st |-> [cp |-> st.cp * 64 + (b - 128), seen |-> st.seen + 1,
                          needed |-> st.needed, lower |-> 128, upper |-> 191]]
            ELSE [out |-> <<st.cp * 64 + (b - 128)>>, st |-> Utf8Zero]
\* the decoder's state after the first i bytes. A byte outside 0x80..0xBF
\* continues no sequence, so the state it leaves is the one Utf8Lead gives
RECURSIVE Utf8StateAfter(_, _)
Utf8StateAfter(bytes, i) ==
  IF i = 0 THEN Utf8Zero
  ELSE IF bytes[i] \notin 128..191 THEN Utf8Lead(bytes[i]).st
  ELSE Utf8Handle(Utf8StateAfter(bytes, i - 1), bytes[i]).st
Utf8Decode(bytes) ==
  Concat([i \in 1..Len(bytes) |-> Utf8Handle(Utf8StateAfter(bytes, i - 1), bytes[i]).out])
    \o (IF Utf8StateAfter(bytes, Len(bytes)).needed # 0 THEN <<CH.replacement>> ELSE <<>>)

\* a code point as UTF-16 code units
CodeUnitsOf(cp) ==
  IF cp >= 65536
  THEN <<55296 + ((cp - 65536) \div 1024), 56320 + ((cp - 65536) % 1024)>>
  ELSE <<cp>>
ToCodeUnits(cps) == Concat([i \in 1..Len(cps) |-> CodeUnitsOf(cps[i])])

\* new TextDecoder().decode(bytes): UTF-8, a leading byte order mark is dropped
TextDecode(bytes) ==
  WithValue(Utf8Decode(bytes), LAMBDA cps :
    WithValue(IF cps # <<>> /\ cps[1] = CH.bom THEN Tail(cps) ELSE cps, ToCodeUnits))

(***************************************************************************)
(* JSON.stringify of the codec's flat object                               *)
(***************************************************************************)
\* the code unit of a radix-16 digit 0..15, lower case
HexDigitCode(d) == IF d < 10 THEN CH.zero + d ELSE 87 + d

\* \uXXXX
UnicodeEscape(c) ==
  <<CH.backslash, CH.u, HexDigitCode(c \div 4096), HexDigitCode((c \div 256) % 16),
    HexDigitCode((c \div 16) % 16), HexDigitCode(c % 16)>>

\* QuoteJSONString, one code unit (next: the code unit after it, 0 at the end;
\* prev: the one before it, 0 at the start)
QuoteCodeUnit(prev, c, next) ==
  CASE c = CH.quote -> <<CH.backslash, CH.quote>>
    [] c = CH.backslash -> <<CH.backslash, CH.backslash>>
    [] c = CH.bs -> <<CH.backslash, CH.b>>
    [] c = CH.ff -> <<CH.backslash, CH.f>>
    [] c = CH.lf -> <<CH.backslash, CH.n>>
    [] c = CH.cr -> <<CH.backslash, CH.r>>
    [] c = CH.tab -> <<CH.backslash, CH.t>>
    [] c < 32 /\ c \notin {8, 9, 10, 12, 13} -> UnicodeEscape(c)
    [] IsHighSurrogate(c) /\ ~IsLowSurrogate(next) -> UnicodeEscape(c)
    [] IsLowSurrogate(c) /\ ~IsHighSurrogate(prev) -> UnicodeEscape(c)
    [] OTHER -> <<c>>

QuoteJSONString(s) ==
  <<CH.quote>>
    \o Concat([i \in 1..Len(s) |->
                 QuoteCodeUnit(IF i > 1 THEN s[i - 1] ELSE 0, s[i],
                               IF i < Len(s) THEN s[i + 1] ELSE 0)])
    \o <<CH.quote>>

\* Number::toString of an integer below 10^21
RECURSIVE DecimalDigits(_)
DecimalDigits(n) ==
  IF n < 10 THEN <<CH.zero + n>> ELSE DecimalDigits(n \div 10) \o <<CH.zero + (n % 10)>>
NumberToString(n) == IF n < 0 THEN <<CH.minus>> \o DecimalDigits(-n) ELSE DecimalDigits(n)

\* SerializeJSONProperty of a primitive value
SerializeValue(x) ==
  CASE x.t = "string" -> QuoteJSONString(x.v)
    [] x.t = "number" -> NumberToString(x.v)
    [] x.t = "numlex" -> x.v
    [] x.t = "boolean" -> IF x.v THEN <<CH.t, CH.r, CH.u, CH.e>> ELSE <<CH.f, CH.a, CH.l, CH.s, CH.e>>
    [] OTHER -> <<CH.n, CH.u, CH.l, CH.l>>

\* SerializeJSONObject: the own properties in insertion order, a property
\* whose value is undefined is left out
RECURSIVE SerializeMembers(_, _)
SerializeMembers(entries, first) ==
  IF entries = <<>> THEN <<>>
  ELSE LET e == Head(entries)
       IN IF e[2].t = "undefined" THEN SerializeMembers(Tail(entries), first)
          ELSE (IF first THEN <<>> ELSE <<CH.comma>>)
                 \o QuoteJSONString(e[1]) \o <<CH.colon>> \o SerializeValue(e[2])
                 \o SerializeMembers(Tail(entries), FALSE)

JSONStringify(obj) == <<CH.lbrace>> \o SerializeMembers(obj.v, TRUE) \o <<CH.rbrace>>

(***************************************************************************)
(* JSON.parse                                                              *)
(***************************************************************************)
ParseFail == [ok |-> FALSE, val |-> Undefined, pos |-> 0]
ParseOk(val, pos) == [ok |-> TRUE, val |-> val, pos |-> pos]

IsDigit(c) == c \in CH.zero..CH.nine
IsJsonWs(c) == c \in {CH.space, CH.tab, CH.lf, CH.cr}

RECURSIVE SkipWs(_, _)
SkipWs(s, i) == IF i <= Len(s) /\ IsJsonWs(s[i]) THEN SkipWs(s, i + 1) ELSE i

\* the value of a radix-16 digit code unit, -1 if it is none
HexCodeVal(c) ==
  IF IsDigit(c) THEN c - CH.zero
  ELSE IF c \in 97..102 THEN c - 87
  ELSE IF c \in 65..70 THEN c - 55
  ELSE -1

\* the characters of a string literal after its opening quote
RECURSIVE ParseStringBody(_, _, _)
ParseStringBody(s, i, acc) ==
  IF i > Len(s) THEN ParseFail
  ELSE LET c == s[i]
       IN IF c = CH.quote THEN ParseOk(acc, i + 1)
          ELSE IF c < 32 THEN ParseFail
          ELSE IF c # CH.backslash THEN ParseStringBody(s, i + 1, Append(acc, c))
          ELSE IF i + 1 > Len(s) THEN ParseFail
          ELSE LET e == s[i + 1]
               IN IF e \in {CH.quote, CH.backslash, CH.slash}
                  THEN ParseStringBody(s, i + 2, Append(acc, e))
                  ELSE IF e = CH.b THEN ParseStringBody(s, i + 2, Append(acc, CH.bs))
                  ELSE IF e = CH.f THEN ParseStringBody(s, i + 2, Append(acc, CH.ff))
                  ELSE IF e = CH.n THEN ParseStringBody(s, i + 2, Append(acc, CH.lf))
                  ELSE IF e = CH.r THEN ParseStringBody(s, i + 2, Append(acc, CH.cr))
                  ELSE IF e = CH.t THEN ParseStringBody(s, i + 2, Append(acc, CH.tab))
                  ELSE IF e = CH.u /\ i + 5 <= Len(s)
                          /\ \A k \in 2..5 : HexCodeVal(s[i + k]) >= 0
                  THEN ParseStringBody(s, i + 6,
                         Append(acc, 4096 * HexCodeVal(s[i + 2]) + 256 * HexCodeVal(s[i + 3])
                                       + 16 * HexCodeVal(s[i + 4]) + HexCodeVal(s[i + 5])))
                  ELSE ParseFail

\* the end of the run of digits starting at i (i itself if there is none)
RECURSIVE DigitsEnd(_, _)
DigitsEnd(s, i) == IF i <= Len(s) /\ IsDigit(s[i]) THEN DigitsEnd(s, i + 1) ELSE i

RECURSIVE DigitsValue(_)
DigitsValue(ds) ==
  IF ds = <<>> THEN 0 ELSE 10 * DigitsValue(SubSeq(ds, 1, Len(ds) - 1)) + (ds[Len(ds)] - CH.zero)

\* a number literal: -? (0 | [1-9][0-9]*) (. [0-9]+)? ([eE] [+-]? [0-9]+)?
\* An integer literal within the model's integer range is its value; a literal
\* with a fraction or an exponent, or a longer one, is kept as its lexeme.
ParseNumber(s, i) ==
  LET neg == s[i] = CH.minus
      i0 == IF neg THEN i + 1 ELSE i
  IN WithValue(DigitsEnd(s, i0), LAMBDA i1 :
       LET intOk == i1 > i0 /\ (s[i0] # CH.zero \/ i1 = i0 + 1)
           hasFrac == i1 <= Len(s) /\ s[i1] = CH.dot
       IN WithValue(IF hasFrac THEN DigitsEnd(s, i1 + 1) ELSE i1, LAMBDA f1 :
            LET fracOk == ~hasFrac \/ f1 > i1 + 1
                hasExp == f1 <= Len(s) /\ s[f1] \in {CH.e, CH.E}
                e0 == IF hasExp /\ f1 + 1 <= Len(s) /\ s[f1 + 1] \in {CH.plus, CH.minus}
                      THEN f1 + 2 ELSE f1 + 1
            IN WithValue(IF hasExp THEN DigitsEnd(s, e0) ELSE f1, LAMBDA e1 :
                 LET expOk == ~hasExp \/ e1 > e0
                     digits == SubSeq(s, i0, i1 - 1)
                     small == Len(digits) <= 9 \/ (Len(digits) = 10 /\ digits[1] = CH.zero + 1)
                 IN IF ~intOk \/ ~fracOk \/ ~expOk THEN ParseFail
                    ELSE IF hasFrac \/ hasExp \/ ~small
                         THEN ParseOk(JNumLex(SubSeq(s, i, e1 - 1)), e1)
                    ELSE ParseOk(JNum(IF neg THEN -DigitsValue(digits) ELSE DigitsValue(digits)),
                                 e1))))

MatchesAt(s, i, word) == i + Len(word) - 1 <= Len(s) /\ SubSeq(s, i, i + Len(word) - 1) = word

RECURSIVE ParseValue(_, _)
RECURSIVE ParseMembers(_, _, _)
RECURSIVE ParseElements(_, _, _)

\* the members of an object after "{" (or after a comma)
ParseMembers(s, i, acc) ==
  WithValue(SkipWs(s, i), LAMBDA j :
    IF j > Len(s) \/ s[j] # CH.quote THEN ParseFail
    ELSE WithValue(ParseStringBody(s, j + 1, <<>>), LAMBDA k :
      IF ~k.ok THEN ParseFail
      ELSE WithValue(SkipWs(s, k.pos), LAMBDA c :
        IF c > Len(s) \/ s[c] # CH.colon THEN ParseFail
        ELSE WithValue(ParseValue(s, c + 1), LAMBDA v :
          IF ~v.ok THEN ParseFail
          ELSE WithValue(SkipWs(s, v.pos), LAMBDA d :
            WithValue(Append(acc, <<k.val, v.val>>), LAMBDA acc2 :
              IF d > Len(s) THEN ParseFail
              ELSE IF s[d] = CH.comma THEN ParseMembers(s, d + 1, acc2)
              ELSE IF s[d] = CH.rbrace THEN ParseOk(JObj(acc2), d + 1)
              ELSE ParseFail))))))

\* the elements of an array after "[" (or after a comma)
ParseElements(s, i, acc) ==
  WithValue(ParseValue(s, i), LAMBDA v :
    IF ~v.ok THEN ParseFail
    ELSE WithValue(SkipWs(s, v.pos), LAMBDA d :
      WithValue(Append(acc, v.val), LAMBDA acc2 :
        IF d > Len(s) THEN ParseFail
        ELSE IF s[d] = CH.comma THEN ParseElements(s, d + 1, acc2)
        ELSE IF s[d] = CH.rbracket THEN ParseOk(JArr(acc2), d + 1)
        ELSE ParseFail)))

ParseValue(s, i) ==
  WithValue(SkipWs(s, i), LAMBDA j :
    IF j > Len(s) THEN ParseFail
    ELSE LET c == s[j]
         IN IF c = CH.lbrace
            THEN LET m == SkipWs(s, j + 1)
                 IN IF m <= Len(s) /\ s[m] = CH.rbrace THEN ParseOk(JObj(<<>>), m + 1)
                    ELSE ParseMembers(s, j + 1, <<>>)
            ELSE IF c = CH.lbracket
            THEN LET m == SkipWs(s, j + 1)
                 IN IF m <= Len(s) /\ s[m] = CH.rbracket THEN ParseOk(JArr(<<>>), m + 1)
                    ELSE ParseElements(s, j + 1, <<>>)
            ELSE IF c = CH.quote
            THEN WithValue(ParseStringBody(s, j + 1, <<>>), LAMBDA k :
                   IF k.ok THEN ParseOk(JStr(k.val), k.pos) ELSE ParseFail)
            ELSE IF c = CH.minus \/ IsDigit(c) THEN ParseNumber(s, j)
            ELSE IF MatchesAt(s, j, <<CH.t, CH.r, CH.u, CH.e>>) THEN ParseOk(JBool(TRUE), j + 4)
            ELSE IF MatchesAt(s, j, <<CH.f, CH.a, CH.l, CH.s, CH.e>>) THEN ParseOk(JBool(FALSE), j + 5)
            ELSE IF MatchesAt(s, j, <<CH.n, CH.u, CH.l, CH.l>>) THEN ParseOk(Null, j + 4)
            ELSE ParseFail)

\* JSON.parse(text): [threw, value]; a SyntaxError unless the text is one
\* JSON value with nothing but white space around it
JSONParse(text) ==
  WithValue(ParseValue(text, 1), LAMBDA r :
    IF r.ok /\ SkipWs(text, r.pos) > Len(text)
    THEN [threw |-> FALSE, value |-> r.val]
    ELSE [threw |-> TRUE, value |-> Undefined])

(***************************************************************************)
(* The cell data codec                                                     *)
(***************************************************************************)
MAGIC_HEX == <<"4", "9", "5", "6", "4", "c", "5", "4">>
VERSION == 1

\* encodeVaultCellData writing an absent optional field as a null-valued key
encodeVaultCellData_NullOptionals(payload) ==
  LET json == JObj(<<<<K_oa, payload.ownerAddress>>,
                     <<K_ut, payload.unlock.type>>,
                     <<K_uv, payload.unlock.value>>,
                     <<K_on, OrElse(payload.ownerName, Null)>>,
                     <<K_m, OrElse(payload.memo, Null)>>>>)
  IN WithValue(JSONStringify(json), LAMBDA text :
       WithValue(TextEncode(text), LAMBDA jsonBytes :
         <<"0", "x">> \o MAGIC_HEX \o ToHex2(VERSION) \o BytesToHex(jsonBytes)))

\* encodeVaultCellData writing the memo under the owner name's key
encodeVaultCellData_MemoAsName(payload) ==
  LET json == JObj(<<<<K_oa, payload.ownerAddress>>,
                     <<K_ut, payload.unlock.type>>,
                     <<K_uv, payload.unlock.value>>>>
                   \o (IF Truthy(payload.ownerName) THEN <<<<K_on, payload.ownerName>>>> ELSE <<>>)
                   \o (IF Truthy(payload.memo) THEN <<<<K_on, payload.memo>>>> ELSE <<>>))
  IN WithValue(JSONStringify(json), LAMBDA text :
       WithValue(TextEncode(text), LAMBDA jsonBytes :
         <<"0", "x">> \o (MAGIC_HEX \o ToHex2(VERSION) \o BytesToHex(jsonBytes))))

\* encodeVaultCellData(payload): "0x" + magic + version + hex of the UTF-8 JSON
encodeVaultCellData(payload) ==
  LET json == JObj(<<<<K_oa, payload.ownerAddress>>,
                     <<K_ut, payload.unlock.type>>,
                     <<K_uv, payload.unlock.value>>>>
                   \o (IF Truthy(payload.ownerName) THEN <<<<K_on, payload.ownerName>>>> ELSE <<>>)
                   \o (IF Truthy(payload.memo) THEN <<<<K_m, payload.memo>>>> ELSE <<>>))
  IN WithValue(JSONStringify(json), LAMBDA text :
       WithValue(TextEncode(text), LAMBDA jsonBytes :
         <<"0", "x">> \o (MAGIC_HEX \o ToHex2(VERSION) \o BytesToHex(jsonBytes))))

\* decodeVaultCellData without the check of the version byte
decodeVaultCellData_AnyVersion(hex) ==
  WithValue(Strip0x(hex), LAMBDA data :
    IF Len(data) < 12 THEN Null
    ELSE IF ToLowerCase(Slice(data, 0, 8)) # MAGIC_HEX THEN Null
    ELSE WithValue(HexToBytes(SliceFrom(data, 10)), LAMBDA bytes :
           WithValue(TextDecode(bytes), LAMBDA text :
             WithValue(JSONParse(text), LAMBDA parsed :
               LET json == parsed.value
               IN IF parsed.threw \/ PropertyAccessThrows(json) THEN Null
                  ELSE [ownerAddress |-> OrElse(GetProp(json, K_oa), JStr(<<>>)),
                        ownerName |-> OrElse(GetProp(json, K_on), Undefined),
                        unlock |-> [type |-> GetProp(json, K_ut),
                                    value |-> GetProp(json, K_uv)],
                        memo |-> OrElse(GetProp(json, K_m), Undefined)]))))

\* decodeVaultCellData(hex): the payload, or Null
decodeVaultCellData(hex) ==
  WithValue(Strip0x(hex), LAMBDA data :
    IF Len(data) < 12 THEN Null
    ELSE IF ToLowerCase(Slice(data, 0, 8)) # MAGIC_HEX THEN Null
    ELSE LET version == ParseInt16(Slice(data, 8, 10))
         IN IF version.nan \/ version.v # VERSION THEN Null
            ELSE WithValue(HexToBytes(SliceFrom(data, 10)), LAMBDA bytes :
                   WithValue(TextDecode(bytes), LAMBDA text :
                     WithValue(JSONParse(text), LAMBDA parsed :
                       LET json == parsed.value
                       IN IF parsed.threw \/ PropertyAccessThrows(json) THEN Null
                          ELSE [ownerAddress |-> OrElse(GetProp(json, K_oa), JStr(<<>>)),
                                ownerName |-> OrElse(GetProp(json, K_on), Undefined),
                                unlock |-> [type |-> GetProp(json, K_ut),
                                            value |-> GetProp(json, K_uv)],
                                memo |-> OrElse(GetProp(json, K_m), Undefined)]))))

\* isVaultCell comparing the magic without lower-casing the data
isVaultCell_CaseSensitive(hex) ==
  LET data == Strip0x(hex)
  IN Len(data) >= 8 /\ Slice(data, 0, 8) = MAGIC_HEX

\* isVaultCell(hex)
isVaultCell(hex) ==
  LET data == Strip0x(hex)
  IN Len(data) >= 8 /\ ToLowerCase(Slice(data, 0, 8)) = MAGIC_HEX

VAULT_DATA_PREFIX == <<"0", "x">> \o MAGIC_HEX \o ToHex2(VERSION)

\* the payload buildCreateVaultTransaction hands to the encoder
\* calculateDataSize without the division by two: the length of the hex digits
calculateDataSize_HexLength(payload) ==
  WithValue(encodeVaultCellData(payload), LAMBDA encoded : Len(encoded) - 2)

\* calculateDataSize(payload): (encoded.length - 2) / 2
calculateDataSize(payload) ==
  WithValue(encodeVaultCellData(payload), LAMBDA encoded : (Len(encoded) - 2) \div 2)

\* calculateMinCapacityCKB(payload)
calculateMinCapacityCKB(payload) ==
  LET dataSize == calculateDataSize(payload)
      CAPACITY_FIELD == 8
      LOCK_SCRIPT_APPROX == 53
      MARGIN == 2
  IN CAPACITY_FIELD + LOCK_SCRIPT_APPROX + dataSize + MARGIN

CreatePayload(ownerAddress, ownerName, unlock, memo) ==
  [ownerAddress |-> ownerAddress,
   ownerName |-> OrElse(ownerName, Undefined),
   unlock |-> unlock,
   memo |-> OrElse(memo, Undefined)]

(***************************************************************************)
(* The timelock encoder                                                    *)
(***************************************************************************)
\* a 64-bit magnitude as four 16-bit limbs, most significant first: the limbs
\* of an integer below 2^31
Limbs(n) == <<0, 0, n \div 65536, n % 65536>>

\* the limbs of a run of decimal digits
RECURSIVE DecimalLimbs(_)
DecimalLimbs(digits) ==
  IF digits = <<>> THEN Limbs(0)
  ELSE WithValue(DecimalLimbs(SubSeq(digits, 1, Len(digits) - 1)), LAMBDA a :
         LET t4 == a[4] * 10 + (digits[Len(digits)] - CH.zero)
             t3 == a[3] * 10 + t4 \div 65536
             t2 == a[2] * 10 + t3 \div 65536
             t1 == a[1] * 10 + t2 \div 65536
         IN <<t1 % 65536, t2 % 65536, t3 % 65536, t4 % 65536>>)

\* a < b on limbs
LimbsLess(a, b) == \E i \in 1..4 : a[i] < b[i] /\ \A j \in 1..(i - 1) : a[j] = b[j]

\* a - k on limbs, for k in {1, 2} and a >= k
LimbsMinus(a, k) ==
  IF a[4] >= k THEN <<a[1], a[2], a[3], a[4] - k>>
  ELSE IF a[3] >= 1 THEN <<a[1], a[2], a[3] - 1, a[4] + 65536 - k>>
  ELSE IF a[2] >= 1 THEN <<a[1], a[2] - 1, 65535, a[4] + 65536 - k>>
  ELSE <<a[1] - 1, 65535, 65535, a[4] + 65536 - k>>

\* a + 1 on limbs
LimbsPlusOne(a) ==
  IF a[4] < 65535 THEN <<a[1], a[2], a[3], a[4] + 1>>
  ELSE IF a[3] < 65535 THEN <<a[1], a[2], a[3] + 1, 0>>
  ELSE IF a[2] < 65535 THEN <<a[1], a[2] + 1, 0, 0>>
  ELSE <<(a[1] + 1) % 65536, 0, 0, 0>>

\* (r * 2^16) mod m, for m below 2^22
Shift16Mod(r, m) == ((((r % m) * 256) % m) * 256) % m

\* a mod m on limbs
LimbsMod(a, m) ==
  LET r1 == a[1] % m
      r2 == (Shift16Mod(r1, m) + a[2]) % m
      r3 == (Shift16Mod(r2, m) + a[3]) % m
  IN (Shift16Mod(r3, m) + a[4]) % m

\* parseInt(s, 16) of "0x" and a run of hex digits that names an integer
\* below 2^53 (which the Number holds exactly), as limbs
RECURSIVE HexLimbs(_)
HexLimbs(digits) ==
  IF digits = <<>> THEN Limbs(0)
  ELSE WithValue(HexLimbs(SubSeq(digits, 1, Len(digits) - 1)), LAMBDA a :
         LET t4 == a[4] * 16 + HexVal(digits[Len(digits)])
             t3 == a[3] * 16 + t4 \div 65536
             t2 == a[2] * 16 + t3 \div 65536
             t1 == a[1] * 16 + t2 \div 65536
         IN <<t1 % 65536, t2 % 65536, t3 % 65536, t4 % 65536>>)

\* (parseInt(capacity, 16) / 1e8).toString(): the decimal the string names,
\* in units of 10^-8 and as limbs. The quotient is the double next to n / 10^8
\* and the string is the shortest decimal that names this double. Below
\* 2^26 * 10^8 the doubles lie closer than 10^-8 to each other and the string
\* is the exact quotient. From there up to 2^53 they are the multiples of
\* 2^-26: with R = n * 2^18 mod 390625 the double lies R / 2^18 units below n
\* (or (390625 - R) / 2^18 above it), the decimals that name it are those
\* within 390625 / 2^19 units of it, and the string is the one of them with
\* seven fractional digits if there is one, else the one next to the double
\* (of two at the same distance the even one)
CapacityCKB(capacity) ==
  WithValue(HexLimbs(Strip0x(capacity)), LAMBDA n :
    IF LimbsLess(n, <<23, 55172, 0, 0>>) THEN n
    ELSE LET R == (Shift16Mod(LimbsMod(n, 390625), 390625) * 4) % 390625
             Rs == IF 2 * R <= 390625 THEN R ELSE R - 390625
             Dist(d) == IF d * 262144 + Rs < 0 THEN -(d * 262144 + Rs) ELSE d * 262144 + Rs
             named == {t \in {-1, 0, 1} : 2 * Dist(t) < 390625}
             short == {t \in named : (LimbsMod(n, 10) + 10 + t) % 10 = 0}
             next == {t \in named : \A u \in named : Dist(t) <= Dist(u)}
             even == {t \in next : (LimbsMod(n, 2) + 2 + t) % 2 = 0}
             shift == IF short # {} THEN CHOOSE t \in short : TRUE
                      ELSE IF Cardinality(next) > 1 THEN CHOOSE t \in even : TRUE
                      ELSE CHOOSE t \in next : TRUE
         IN IF shift = 1 THEN LimbsPlusOne(n)
            ELSE IF shift = 0 THEN n ELSE LimbsMinus(n, 1))

\* the Number a number value holds: its sign, the limbs of the integer part
\* of its magnitude and whether it has a fractional part. A literal kept as
\* its lexeme is -? digits (. digits)?, without exponent, and names a double.
ToNumber(x) ==
  IF x.t = "number"
  THEN [neg |-> x.v < 0, int |-> Limbs(IF x.v < 0 THEN -x.v ELSE x.v), frac |-> FALSE]
  ELSE LET neg == x.v[1] = CH.minus
           i0 == IF neg THEN 2 ELSE 1
           i1 == DigitsEnd(x.v, i0)
       IN [neg |-> neg,
           int |-> DecimalLimbs(SubSeq(x.v, i0, i1 - 1)),
           frac |-> \E i \in (i1 + 1)..Len(x.v) : x.v[i] \in (CH.zero + 1)..CH.nine]

\* a >= b on Numbers, a an integer that is not negative (a chain tip)
NumberGte(a, b) ==
  IF b.neg THEN TRUE
  ELSE IF LimbsLess(a.int, b.int) THEN FALSE
  ELSE IF LimbsLess(b.int, a.int) THEN TRUE
  ELSE ~b.frac

\* Math.max(0, value - 1). The subtraction is the double one: exact up to
\* 2^53; above it, where the doubles are the even integers (from 2^54 on the
\* multiples of 4, ...), value - 1 is no double and is rounded, to the
\* neighbour that is a multiple of 4 below 2^54 and back to value from there on
AdjustedValue(value) ==
  WithValue(ToNumber(value), LAMBDA x :
    IF x.neg \/ LimbsLess(x.int, Limbs(1)) THEN ToNumber(JNum(0))
    ELSE IF x.frac \/ ~LimbsLess(<<32, 0, 0, 0>>, x.int)
         THEN [x EXCEPT !.int = LimbsMinus(x.int, 1)]
    ELSE IF LimbsLess(x.int, <<64, 0, 0, 0>>) /\ x.int[4] % 4 # 0
         THEN [x EXCEPT !.int = LimbsMinus(x.int, 2)]
    ELSE x)

RECURSIVE BitOr16(_, _, _)
BitOr16(a, b, bits) ==
  IF bits = 0 THEN 0
  ELSE 2 * BitOr16(a \div 2, b \div 2, bits - 1) + (IF a % 2 = 1 \/ b % 2 = 1 THEN 1 ELSE 0)

\* BigInt(n) of a Number that is not negative: a RangeError unless n is an
\* integer
BigInt(n) == IF n.frac THEN Threw ELSE n.int
\* a | b on BigInts
BigOr(a, b) == <<>> \o [i \in 1..4 |-> BitOr16(a[i], b[i], 16)]
\* BigInt("0x4000000000000000")
TIMESTAMP_FLAG == <<16384, 0, 0, 0>>

\* the since value buildClaimVaultTransaction puts on the vault input, Threw
\* when the function throws
SinceValue(unlock) ==
  IF unlock.type = JStr(S_blockHeight)
  THEN LET adjustedValue == AdjustedValue(unlock.value)
       IN BigInt(adjustedValue)
  ELSE LET adjustedValue == AdjustedValue(unlock.value)
       IN IF adjustedValue.frac THEN Threw
          ELSE BigOr(TIMESTAMP_FLAG, BigInt(adjustedValue))

\* isUnlockConditionSatisfied comparing against the encoder's adjusted value
isUnlockConditionSatisfied_Adjusted(unlock, currentBlockHeight, currentTimestamp) ==
  IF unlock.type = JStr(S_blockHeight)
  THEN NumberGte(ToNumber(JNum(currentBlockHeight)), AdjustedValue(unlock.value))
  ELSE NumberGte(ToNumber(JNum(currentTimestamp)), AdjustedValue(unlock.value))

\* isUnlockConditionSatisfied(unlock, currentBlockHeight, currentTimestamp)
isUnlockConditionSatisfied(unlock, currentBlockHeight, currentTimestamp) ==
  IF unlock.type = JStr(S_blockHeight)
  THEN NumberGte(ToNumber(JNum(currentBlockHeight)), ToNumber(unlock.value))
  ELSE NumberGte(ToNumber(JNum(currentTimestamp)), ToNumber(unlock.value))

(***************************************************************************)
(* Inputs                                                                  *)
(***************************************************************************)
\* owner addresses: "" and "a"
OwnerAddresses == {JStr(<<>>), JStr(<<97>>)}
\* optional texts: absent, "", "n", the two code units quote, e-acute, and
\* the surrogate pair of U+1F600
OptionalTexts ==
  {Undefined, JStr(<<>>), JStr(<<110>>), JStr(<<34, 233>>), JStr(<<55357, 56832>>)}
UnlockTypes == {JStr(S_blockHeight), JStr(S_timestamp)}
UnlockValues == {0, 500, 1700000000}
UnlockConditions == [type : UnlockTypes, value : {JNum(v) : v \in UnlockValues}]

\* characters written over one character of a cell's data
TamperChars == {"0", "2", "C", "g"}
\* JSON bodies that are no object
NonObjectBodies == {<<110, 117, 108, 108>>, <<91, 93>>, <<49>>, <<34, 97, 34>>}
RequiredKeys == {K_oa, K_ut, K_uv}

(***************************************************************************)
(* Codec: the state machine                                                *)
(***************************************************************************)
IdleCodec ==
  /\ cArgs = NotRun /\ cPayload = NotRun /\ cData = NotRun
  /\ cOrigin = "none" /\ cDecoded = NotRun /\ cIsVault = NotRun

IdleTimelock ==
  /\ tUnlock = NotRun /\ tTip = NotRun /\ tSince = NotRun /\ tSatisfied = NotRun

IdleResolve ==
  /\ rPc = "idle" /\ rQuery = NotRun /\ rTxResp = NotRun /\ rTx = NotRun /\ rLiveResp = NotRun
  /\ rRequests = <<>> /\ rResult = NotRun
  /\ lPc = "idle" /\ lResp = NotRun /\ lResult = NotRun

IdleEnum ==
  /\ eLedger = NotRun /\ ePc = "idle" /\ eCursor = NotRun /\ eVaults = <<>>
  /\ eRequests = <<>> /\ eLog = <<>>
  /\ eResult = NotRun /\ eCapable = NotRun /\ eRejecting = NotRun

IdleCapacity == kPayloads = NotRun /\ kMin = NotRun
IdleIds == nNow = 0 /\ nIssued = <<>>
IdleOutPoint ==
  /\ oLedger = NotRun /\ oQuery = NotRun /\ oHistory = NotRun /\ oPc = "idle"
  /\ oIndexerResp = NotRun /\ oRpcResp = NotRun /\ oResult = NotRun
IdlePages ==
  /\ gTx = NotRun /\ gClaim = NotRun /\ gTip = NotRun /\ gSigner = NotRun /\ gStore = NotRun
  /\ gPages = NotRun /\ gMails = 0 /\ gRecorded = NotRun

InitCodec ==
  /\ cArgs \in [ownerAddress : OwnerAddresses, ownerName : OptionalTexts,
                memo : OptionalTexts, unlock : UnlockConditions]
  /\ cPayload = NotRun
  /\ cData = NotRun
  /\ cOrigin = "none"
  /\ cDecoded = NotRun
  /\ cIsVault = NotRun

\* buildCreateVaultTransaction encodes the vault metadata into the cell data
BuildCreate ==
  /\ cOrigin = "none"
  /\ cPayload' = CreatePayload(cArgs.ownerAddress, cArgs.ownerName, cArgs.unlock, cArgs.memo)
  /\ cData' = encodeVaultCellData(cPayload')
  /\ cOrigin' = "encoded"
  /\ cArgs' = NotRun
  /\ UNCHANGED <<cDecoded, cIsVault, nonCodecVars>>

\* the chain holds only the first n characters of an encoded cell's data
Truncate ==
  /\ cOrigin = "encoded" /\ cIsVault = NotRun
  /\ \E n \in 0..(Len(cData) - 1) : cData' = SubSeq(cData, 1, n)
  /\ cOrigin' = "truncated"
  /\ UNCHANGED <<cArgs, cPayload, cDecoded, cIsVault, nonCodecVars>>

\* the chain holds an encoded cell's data with one character of its header
\* (or of the first body byte) overwritten
Tamper ==
  /\ cOrigin = "encoded" /\ cIsVault = NotRun
  /\ \E i \in 1..(Len(VAULT_DATA_PREFIX) + 2), c \in TamperChars :
       /\ cData[i] # c
       /\ cData' = [cData EXCEPT ![i] = c]
  /\ cOrigin' = "tampered"
  /\ UNCHANGED <<cArgs, cPayload, cDecoded, cIsVault, nonCodecVars>>

\* the chain holds an encoded cell's data without its 0x prefix
DropPrefix ==
  /\ cOrigin = "encoded" /\ cIsVault = NotRun
  /\ cData' = SliceFrom(cData, 2)
  /\ cOrigin' = "unprefixed"
  /\ UNCHANGED <<cArgs, cPayload, cDecoded, cIsVault, nonCodecVars>>

\* the chain holds a cell written by another program: the codec's header and a
\* JSON object with only some of the required keys
\* the object a foreign writer stores: the required keys in keys and the
\* optional ones, with the values of args
ForeignObject(args, keys) ==
  JObj(SelectSeq(<<<<K_oa, args.ownerAddress>>, <<K_ut, args.unlock.type>>,
                   <<K_uv, args.unlock.value>>, <<K_on, args.ownerName>>,
                   <<K_m, args.memo>>>>,
                 LAMBDA e : e[1] \in keys \/ e[1] \notin RequiredKeys))
LoadForeignObject ==
  /\ cOrigin = "none"
  /\ \E obj \in {ForeignObject(cArgs, keys) : keys \in SUBSET RequiredKeys} :
       /\ cPayload' = obj
       /\ cData' = VAULT_DATA_PREFIX \o BytesToHex(TextEncode(JSONStringify(obj)))
  /\ cOrigin' = "foreign"
  /\ cArgs' = NotRun
  /\ UNCHANGED <<cDecoded, cIsVault, nonCodecVars>>

\* the chain holds the codec's header followed by a JSON value that is no object
LoadNonObject ==
  /\ cOrigin = "none"
  /\ cPayload' = NotRun
  /\ \E body \in NonObjectBodies :
       cData' = VAULT_DATA_PREFIX \o BytesToHex(TextEncode(body))
  /\ cOrigin' = "nonobject"
  /\ cArgs' = NotRun
  /\ UNCHANGED <<cDecoded, cIsVault, nonCodecVars>>

\* a reader applies the prefix check to the data
CallIsVaultCell ==
  /\ cOrigin # "none" /\ cIsVault = NotRun
  /\ cIsVault' = JBool(isVaultCell(cData))
  /\ UNCHANGED <<cArgs, cPayload, cData, cOrigin, cDecoded, nonCodecVars>>

\* a reader decodes the data
CallDecode ==
  /\ cOrigin # "none" /\ cIsVault # NotRun /\ cDecoded = NotRun
  /\ cDecoded' = decodeVaultCellData(cData)
  /\ UNCHANGED <<cArgs, cPayload, cData, cOrigin, cIsVault, nonCodecVars>>

\* the payloads the create page asks the capacity for (the owner address is
\* not empty there)
CapacityPayloads ==
  {CreatePayload(JStr(<<97>>), name, unlock, memo) :
     name \in OptionalTexts, unlock \in UnlockConditions, memo \in OptionalTexts}

InitCapacity ==
  /\ kPayloads \in CapacityPayloads \X CapacityPayloads
  /\ kMin = NotRun

\* calculateMinCapacityCKB is called for each of the two payloads
CallMinCapacity ==
  /\ kMin = NotRun
  /\ kMin' = [t |-> "capacities",
              v |-> <<calculateMinCapacityCKB(kPayloads[1]),
                      calculateMinCapacityCKB(kPayloads[2])>>]
  /\ UNCHANGED <<kPayloads, nonCapacityVars>>

NextCodec ==
  \/ BuildCreate
  \/ Truncate
  \/ Tamper
  \/ DropPrefix
  \/ LoadForeignObject
  \/ LoadNonObject
  \/ CallIsVaultCell
  \/ CallDecode

InitSpecCodec == InitCodec /\ IdleTimelock /\ IdleResolve /\ IdleEnum /\ IdleCapacity /\ IdleIds /\ IdleOutPoint /\ IdlePages

SpecCodec == InitSpecCodec /\ [][NextCodec]_vars

InitSpecCapacity == IdleCodec /\ IdleTimelock /\ IdleResolve /\ IdleEnum /\ InitCapacity /\ IdleIds /\ IdleOutPoint /\ IdlePages

SpecCapacity == InitSpecCapacity /\ [][CallMinCapacity]_vars

(***************************************************************************)
(* Timelock: the state machine                                             *)
(***************************************************************************)
\* thresholds and chain tips around them: heights and timestamps as the pages
\* store them, and what the uv of a cell on the chain may hold besides: the
\* doubles 2^53, 2^53 + 2, 2^53 + 4, 2^54 + 4 and 2^56 - 8, and 500.5
TimelockValues ==
  {JNum(v) : v \in {0, 1, 2, 500, 1000, 1700000000}}
    \cup {JNumLex(<<57, 48, 48, 55, 49, 57, 57, 50, 53, 52, 55, 52, 48, 57, 57, 50>>),
          JNumLex(<<57, 48, 48, 55, 49, 57, 57, 50, 53, 52, 55, 52, 48, 57, 57, 52>>),
          JNumLex(<<57, 48, 48, 55, 49, 57, 57, 50, 53, 52, 55, 52, 48, 57, 57, 54>>),
          JNumLex(<<49, 56, 48, 49, 52, 51, 57, 56, 53, 48, 57, 52, 56, 49, 57, 56, 56>>),
          JNumLex(<<55, 50, 48, 53, 55, 53, 57, 52, 48, 51, 55, 57, 50, 55, 57, 50, 56>>),
          JNumLex(<<53, 48, 48, 46, 53>>)}
TipHeights == {0, 1, 499, 500, 999, 1000, 1001}
TipTimestamps == {0, 1, 1699999999, 1700000000, 1700000001}

InitTimelock ==
  /\ tUnlock \in [type : UnlockTypes, value : TimelockValues]
  /\ tTip \in [blockNumber : TipHeights, timestamp : TipTimestamps]
  /\ tSince = NotRun
  /\ tSatisfied = NotRun

\* buildClaimVaultTransaction computes the since value of the vault input
BuildClaim ==
  /\ tSince = NotRun
  /\ tSince' = SinceValue(tUnlock)
  /\ UNCHANGED <<tUnlock, tTip, tSatisfied, nonTimelockVars>>

\* the detail page asks whether the condition is satisfied at the tip
CallIsSatisfied ==
  /\ tSatisfied = NotRun
  /\ tSatisfied' = JBool(isUnlockConditionSatisfied(tUnlock, tTip.blockNumber, tTip.timestamp))
  /\ UNCHANGED <<tUnlock, tTip, tSince, nonTimelockVars>>

NextTimelock ==
  \/ BuildClaim
  \/ CallIsSatisfied

InitSpecTimelock == IdleCodec /\ InitTimelock /\ IdleResolve /\ IdleEnum /\ IdleCapacity /\ IdleIds /\ IdleOutPoint /\ IdlePages

SpecTimelock == InitSpecTimelock /\ [][NextTimelock]_vars

(***************************************************************************)
(* JSON-RPC over fetch: what a request can come back with                  *)
(***************************************************************************)
\* fetch() rejects: the endpoint cannot be reached
Rejected == [kind |-> "rejected", ok |-> TRUE, error |-> FALSE, result |-> Undefined]
\* the body is no JSON (an HTML error page of a non-2xx answer): res.json() throws
NotJson == [kind |-> "notjson", ok |-> TRUE, error |-> FALSE, result |-> Undefined]
\* a JSON-RPC error object (it carries no result)
RpcError == [kind |-> "json", ok |-> TRUE, error |-> TRUE, result |-> Undefined]
\* a JSON-RPC result
RpcResult(result) == [kind |-> "json", ok |-> TRUE, error |-> FALSE, result |-> result]
\* the same body under a non-2xx status: fetch resolves all the same and
\* neither rpcCall nor the resolver reads response.ok or response.status
NonOk(resp) == [resp EXCEPT !.ok = FALSE]

\* the request failed: transport failure, unparsable response, or error object
RequestFailed(resp) == resp.kind \in {"rejected", "notjson"} \/ resp.error

\* rpcCall(url, method, params): [threw, value]
rpcCall(resp) ==
  IF resp.kind \in {"rejected", "notjson"} THEN [threw |-> TRUE, value |-> Undefined]
  ELSE IF resp.error THEN [threw |-> TRUE, value |-> Undefined]
  ELSE [threw |-> FALSE, value |-> resp.result]

\* the answers of get_live_cell
LiveCell(status) == [t |-> "object", status |-> status]
LiveResponses ==
  {Rejected, NotJson, RpcError, RpcResult(Undefined), RpcResult(Null)}
    \cup {RpcResult(LiveCell(st)) : st \in {"live", "unknown", "dead"}}

\* isCellLive(network, outPoint), given the response to its request
isCellLive(resp) ==
  LET r == rpcCall(resp)
  IN IF r.threw THEN FALSE
     ELSE IF PropertyAccessThrows(r.value) THEN FALSE
     ELSE r.value.status = "live"

(***************************************************************************)
(* fetchVaultFromTransaction                                               *)
(***************************************************************************)
\* the payload of the sample vault and the cell data the node may hold
SamplePayload ==
  CreatePayload(JStr(<<97>>), Undefined,
                [type |-> JStr(S_blockHeight), value |-> JNum(500)], Undefined)
ValidData == encodeVaultCellData(SamplePayload)
NamedData ==
  encodeVaultCellData(CreatePayload(JStr(<<97>>), JStr(<<110>>),
                [type |-> JStr(S_timestamp), value |-> JNum(1700000000)], JStr(<<34, 233>>)))
\* the magic with version 2
WrongVersionData == SubSeq(ValidData, 1, Len(VAULT_DATA_PREFIX) - 1) \o <<"2">> \o SliceFrom(ValidData, Len(VAULT_DATA_PREFIX))
\* the header followed by an unfinished JSON body
BadBodyData == VAULT_DATA_PREFIX \o <<"7", "b">>
\* a cell without data
PlainData == <<"0", "x">>

\* the outputs of the transactions the node may report, each with its data
\* the capacities of the outputs, in shannons: 250 CKB, 250.00000001 CKB,
\* 67,108,864.00000001 CKB, 90,029,661.06835937 CKB and 2^53 - 1 shannons
Capacities ==
  {<<"0", "x", "5", "d", "2", "1", "d", "b", "a", "0", "0">>,
   <<"0", "x", "5", "d", "2", "1", "d", "b", "a", "0", "1">>,
   <<"0", "x", "1", "7", "d", "7", "8", "4", "0", "0", "0", "0", "0", "0", "0", "1">>,
   <<"0", "x", "1", "f", "f", "c", "2", "6", "6", "4", "b", "9", "0", "b", "e", "1">>,
   <<"0", "x", "1", "f", "f", "f", "f", "f", "f", "f", "f", "f", "f", "f", "f", "f">>}
\* an output of the given capacity, locked to the script of the given args
OutputOf(capacity, args) ==
  [capacity |-> JStr(capacity),
   lock |-> [code_hash |-> "0x9bd7", hash_type |-> "type", args |-> args]]
Output == OutputOf(<<"0", "x", "5", "d", "2", "1", "d", "b", "a", "0", "0">>, "0xb1")
TxShapes ==
  {[outputs |-> <<>>, outputs_data |-> <<>>],
   [outputs |-> <<Output>>, outputs_data |-> <<JStr(WrongVersionData)>>],
   [outputs |-> <<Output>>, outputs_data |-> <<JStr(BadBodyData)>>],
   [outputs |-> <<Output>>, outputs_data |-> <<JStr(PlainData)>>],
   [outputs |-> <<Output>>, outputs_data |-> <<JStr(<<>>)>>],
   [outputs |-> <<Output, OutputOf(<<"0", "x", "5", "d", "2", "1", "d", "b", "a", "0", "1">>, "0xb2")>>,
    outputs_data |-> <<JStr(PlainData), JStr(NamedData)>>]}
    \cup {[outputs |-> <<OutputOf(capacity, "0xb1")>>, outputs_data |-> <<JStr(ValidData)>>] :
            capacity \in Capacities}
TxStatuses == {"pending", "proposed", "committed", "rejected", "unknown"}
\* tx_status.block_number: null while the transaction is in no block
BlockNumbers == {Null, JStr(<<"0", "x", "0">>), JStr(<<"0", "x", "1", "f", "4">>)}

\* the results of get_transaction: null for an unknown hash, a result without
\* transaction, or a transaction with its status (tx_status may be missing)
TxResults ==
  {Null, [transaction |-> Null, tx_status |-> [status |-> "unknown", block_number |-> Null]]}
    \cup {[transaction |-> shape, tx_status |-> st] :
            shape \in TxShapes,
            st \in {Undefined} \cup [status : TxStatuses, block_number : BlockNumbers]}
\* the responses to get_transaction: the request fails, or a result comes, or a
\* JSON body with neither a result nor an error member comes (RpcResult of
\* undefined), or a gateway answers with a non-2xx status and an HTML page, a
\* JSON message of its own or a JSON-RPC error
TxResponses ==
  {Rejected, NotJson, RpcError} \cup {RpcResult(r) : r \in TxResults}
    \cup {RpcResult(Undefined), NonOk(NotJson), NonOk(RpcResult(Undefined)), NonOk(RpcError)}

\* arr[index] of a JavaScript array
ArrayGet(arr, index) == IF index < Len(arr) THEN arr[index + 1] ELSE Undefined

\* txResult.tx_status?.status ?? "unknown"
TxStatusOf(txResult) ==
  IF txResult.tx_status = Undefined THEN "unknown" ELSE txResult.tx_status.status

\* fetchVaultFromTransaction without its `if (!decoded) return null`: the
\* output is kept with data null
VaultCellOf_NoDecodedCheck(txResult, index) ==
  IF txResult \in {Null, Undefined} THEN Null
  ELSE IF txResult.transaction \in {Null, Undefined} THEN Null
  ELSE LET output == ArrayGet(txResult.transaction.outputs, index)
           outputData == ArrayGet(txResult.transaction.outputs_data, index)
       IN IF output = Undefined \/ ~Truthy(outputData) THEN Null
          ELSE IF ~isVaultCell(outputData.v) THEN Null
          ELSE WithValue(decodeVaultCellData(outputData.v),
                         LAMBDA d : IF d = Null THEN [data |-> Null] ELSE d)

\* the vault cell the transaction holds at index: Null for every "not found"
VaultCellOf(txResult, index) ==
  IF txResult \in {Null, Undefined} THEN Null
  ELSE IF txResult.transaction \in {Null, Undefined} THEN Null
  ELSE LET output == ArrayGet(txResult.transaction.outputs, index)
           outputData == ArrayGet(txResult.transaction.outputs_data, index)
       IN IF output = Undefined \/ ~Truthy(outputData) THEN Null
          ELSE IF ~isVaultCell(outputData.v) THEN Null
          ELSE decodeVaultCellData(outputData.v)

\* the liveness asked for unless the transaction is rejected or unknown
ChecksLiveness_NotRejected(txStatus) == txStatus \notin {"rejected", "unknown"}

\* if (txStatus === "committed"): the cell's liveness is asked for
ChecksLiveness(txStatus) == txStatus = "committed"

\* isLive set when the request or the parsing of its answer threw
IsLiveFrom_FailOpen(resp) ==
  IF resp.kind \in {"rejected", "notjson"} THEN TRUE
  ELSE IF resp.result \in {Null, Undefined} THEN FALSE
  ELSE resp.result.status = "live"

\* isLive after the get_live_cell request: liveJson.result?.status === "live",
\* false when the request or the parsing of its answer threw
IsLiveFrom(resp) ==
  IF resp.kind \in {"rejected", "notjson"} THEN FALSE
  ELSE IF resp.result \in {Null, Undefined} THEN FALSE
  ELSE resp.result.status = "live"

\* the vault returned without its block number
VaultFromTx_NoBlockNumber(query, txResult, decoded, isLive) ==
  LET output == ArrayGet(txResult.transaction.outputs, query.index)
  IN [outPoint |-> [txHash |-> query.txHash, index |-> query.index],
      capacityCKB |-> CapacityCKB(output.capacity.v),
      beneficiaryLock |-> [code_hash |-> output.lock.code_hash,
                           hash_type |-> output.lock.hash_type,
                           args |-> output.lock.args],
      data |-> decoded, txStatus |-> TxStatusOf(txResult), isLive |-> isLive,
      blockNumber |-> Undefined]

\* the object fetchVaultFromTransaction returns
VaultFromTx(query, txResult, decoded, isLive) ==
  LET output == ArrayGet(txResult.transaction.outputs, query.index)
      block_number == IF txResult.tx_status = Undefined THEN Undefined
                      ELSE txResult.tx_status.block_number
  IN [outPoint |-> [txHash |-> query.txHash, index |-> query.index],
      capacityCKB |-> CapacityCKB(output.capacity.v),
      beneficiaryLock |-> [code_hash |-> output.lock.code_hash,
                           hash_type |-> output.lock.hash_type,
                           args |-> output.lock.args],
      data |-> decoded, txStatus |-> TxStatusOf(txResult), isLive |-> isLive,
      blockNumber |-> IF Truthy(block_number)
                      THEN [t |-> "limbs", v |-> HexLimbs(Strip0x(block_number.v))]
                      ELSE Undefined]

IsVaultFromTx(r) == r \notin {NotRun, Null, Threw}

\* the caller asks for the vault at (txHash, index): get_transaction is requested
CallFetchVault ==
  /\ rPc = "idle"
  /\ \E index \in {0, 1} : rQuery' = [txHash |-> "0xaa", index |-> index]
  /\ rRequests' = <<"get_transaction">>
  /\ rPc' = "awaitTx"
  /\ UNCHANGED <<rTxResp, rTx, rLiveResp, rResult, nonResolveVars>>

\* the get_transaction response arrives; the call runs on to its return, its
\* throw, or its get_live_cell request
TxResponse ==
  /\ rPc = "awaitTx"
  /\ \E resp \in TxResponses :
       /\ rTxResp' = resp
       /\ IF RequestFailed(resp)
          THEN /\ rResult' = Threw
               /\ rPc' = "done"
               /\ UNCHANGED <<rTx, rRequests>>
          ELSE \E decoded \in {VaultCellOf(resp.result, rQuery.index)} :
                  /\ rTx' = resp.result
                  /\ IF decoded = Null
                     THEN /\ rResult' = Null
                          /\ rPc' = "done"
                          /\ UNCHANGED rRequests
                     ELSE IF ChecksLiveness(TxStatusOf(resp.result))
                          THEN /\ rRequests' = Append(rRequests, "get_live_cell")
                               /\ rPc' = "awaitLive"
                               /\ UNCHANGED rResult
                          ELSE /\ rResult' = VaultFromTx(rQuery, resp.result, decoded, FALSE)
                               /\ rPc' = "done"
                               /\ UNCHANGED rRequests
  /\ UNCHANGED <<rQuery, rLiveResp, nonResolveVars>>

\* the get_live_cell response arrives; the call returns the vault
LiveResponse ==
  /\ rPc = "awaitLive"
  /\ \E resp \in LiveResponses :
       /\ rLiveResp' = resp
       /\ \E decoded \in {VaultCellOf(rTx, rQuery.index)} :
            rResult' = VaultFromTx(rQuery, rTx, decoded, IsLiveFrom(resp))
  /\ rPc' = "done"
  /\ UNCHANGED <<rQuery, rTxResp, rTx, rRequests, nonResolveVars>>

\* isCellLive is called: get_live_cell is requested
CallIsCellLive ==
  /\ lPc = "idle"
  /\ lPc' = "awaitLive"
  /\ UNCHANGED <<lResp, lResult, nonLiveVars>>

\* its response arrives; isCellLive returns
IsCellLiveResponse ==
  /\ lPc = "awaitLive"
  /\ \E resp \in LiveResponses :
       /\ lResp' = resp
       /\ lResult' = JBool(isCellLive(resp))
  /\ lPc' = "done"
  /\ UNCHANGED nonLiveVars

NextResolve ==
  \/ CallFetchVault
  \/ TxResponse
  \/ LiveResponse
  \/ CallIsCellLive
  \/ IsCellLiveResponse

InitSpecResolve == IdleCodec /\ IdleTimelock /\ IdleResolve /\ IdleEnum /\ IdleCapacity /\ IdleIds /\ IdleOutPoint /\ IdlePages

SpecResolve == InitSpecResolve /\ [][NextResolve]_vars

(***************************************************************************)
(* fetchVaultsForLockScript: the ledger and the indexer                    *)
(***************************************************************************)
\* the limit "0x64" of every get_cells request, and the page length the
\* scans compare with
PageLimit == 100
\* the ledgers hold up to MaxPages full pages of cells, and one cell more
MaxPages == 2
\* a page without last_cursor is served only to the first MaxRequests - 1
\* requests of a call
MaxRequests == 5

\* the header followed by the JSON object {}
EmptyObjectData == VAULT_DATA_PREFIX \o <<"7", "b", "7", "d">>
\* the data a cell of the ledger may hold
DataKinds == <<ValidData, NamedData, WrongVersionData, BadBodyData, PlainData, EmptyObjectData>>
\* the ledgers: the data of the cells repeats a pattern of kinds
Patterns == {<<1>>, <<3>>, <<5>>, <<1, 5, 3, 4, 2, 6>>, <<5, 5, 3, 1>>}
CellCounts ==
  {0, 1} \cup UNION {{k * PageLimit - 1, k * PageLimit, k * PageLimit + 1} : k \in 1..MaxPages}
Ledgers == [count : CellCounts, pattern : Patterns]

\* the i-th live cell of the ledger in the indexer's descending order, as
\* get_cells reports it with with_data: true
Cell(ledger, i) ==
  [out_point |-> [tx_hash |-> i, index |-> JStr(<<"0", "x", HexDigits[(i % 3) + 1]>>)],
   output_data |-> JStr(DataKinds[ledger.pattern[((i - 1) % Len(ledger.pattern)) + 1]])]

\* filter {output_data: VAULT_DATA_PREFIX, output_data_filter_mode: "prefix"}
\* as a filter-capable indexer applies it to the bytes of the data
MatchesFilter(cell) ==
  /\ Len(cell.output_data.v) >= Len(VAULT_DATA_PREFIX)
  /\ SubSeq(cell.output_data.v, 1, Len(VAULT_DATA_PREFIX)) = VAULT_DATA_PREFIX

\* the cursor the indexer returns after the cell at position pos
CursorAt(pos) == JStr(<<"0", "x", pos>>)
\* the result of get_cells: the first PageLimit selected cells after the
\* cursor, and the cursor of the last of them ("0x" for an empty page)
IndexerPage(ledger, filtered, cursor) ==
  LET after == IF cursor = Undefined THEN 0 ELSE cursor.v[3]
  IN WithValue(SelectSeq([i \in 1..(ledger.count - after) |-> after + i],
                         LAMBDA i : ~filtered \/ MatchesFilter(Cell(ledger, i))),
               LAMBDA selected :
       WithValue(SubSeq(selected, 1, Min(Len(selected), PageLimit)), LAMBDA served :
         [objects |-> <<>> \o [j \in 1..Len(served) |-> Cell(ledger, served[j])],
          last_cursor |-> IF served = <<>> THEN JStr(<<"0", "x">>)
                          ELSE CursorAt(served[Len(served)])]))

\* how the indexer answers one request
\* ("nocursor": the page comes back without its last_cursor member)
ResponseKinds == {"ok", "nocursor", "error", "rejected", "notjson"}
GetCellsResponse(ledger, filtered, cursor, kind) ==
  CASE kind = "ok" -> RpcResult(IndexerPage(ledger, filtered, cursor))
    [] kind = "nocursor" ->
         RpcResult([objects |-> IndexerPage(ledger, filtered, cursor).objects,
                    last_cursor |-> Undefined])
    [] kind = "error" -> RpcError
    [] kind = "rejected" -> Rejected
    [] OTHER -> NotJson

(***************************************************************************)
(* fetchVaultsForLockScript and fetchVaultsForLockScriptFallback           *)
(***************************************************************************)
\* decodeVaultCellData and isVaultCell of the data kinds, tabulated
DecodedKinds ==
  <<decodeVaultCellData(DataKinds[1]), decodeVaultCellData(DataKinds[2]),
    decodeVaultCellData(DataKinds[3]), decodeVaultCellData(DataKinds[4]),
    decodeVaultCellData(DataKinds[5]), decodeVaultCellData(DataKinds[6])>>
IsVaultKinds ==
  <<isVaultCell(DataKinds[1]), isVaultCell(DataKinds[2]), isVaultCell(DataKinds[3]),
    isVaultCell(DataKinds[4]), isVaultCell(DataKinds[5]), isVaultCell(DataKinds[6])>>
KindOf(data) == CHOOSE k \in 1..Len(DataKinds) : DataKinds[k] = data
\* decodeVaultCellData(cell.output_data) and isVaultCell(cell.output_data)
DecodeCell(cell) == DecodedKinds[KindOf(cell.output_data.v)]
IsVaultCellOf(cell) == IsVaultKinds[KindOf(cell.output_data.v)]

\* the vault pushed for a cell that decoded
OnChainVault(cell, decoded) ==
  [outPoint |-> [txHash |-> cell.out_point.tx_hash,
                 index |-> ParseInt16(cell.out_point.index.v).v],
   data |-> decoded,
   status |-> "live"]

\* the filtered scan keeping every cell of a page
KeptByFiltered_EveryCell(cell) == TRUE

\* the filtered scan skips a cell that does not decode
KeptByFiltered(cell) == DecodeCell(cell) # Null
\* the fallback scan skips a cell that fails isVaultCell or does not decode
KeptByFallback(cell) == IsVaultCellOf(cell) /\ DecodeCell(cell) # Null

\* vaults after the for loop over the objects of one page
PushVaults(vaults, objects, fallback) ==
  WithValue(SelectSeq(objects,
                      LAMBDA cell : IF fallback THEN KeptByFallback(cell)
                                    ELSE KeptByFiltered(cell)),
            LAMBDA kept :
    vaults \o [j \in 1..Len(kept) |-> OnChainVault(kept[j], DecodeCell(kept[j]))])

\* params[3]: pushed only if (cursor)
CursorParam(cursor) == IF Truthy(cursor) THEN cursor ELSE Undefined
\* json.result?.last_cursor ?? null
NextCursor(result) ==
  IF result \in {Null, Undefined} THEN Null
  ELSE IF result.last_cursor \in {Null, Undefined} THEN Null ELSE result.last_cursor
\* if (objects.length < 100) break
LastPage(objects) == Len(objects) < PageLimit

\* fetch(indexerUrl, get_cells) issued twice, for this page and, ahead of its
\* answer, once more
SendGetCells_Twice(sent, filtered, cursor) ==
  sent \o <<[filtered |-> filtered, cursor |-> CursorParam(cursor)],
            [filtered |-> filtered, cursor |-> CursorParam(cursor)]>>

\* fetch(indexerUrl, get_cells) with params [searchKey, "desc", "0x64"] and the
\* cursor pushed if there is one: the request joins those issued
SendGetCells(sent, filtered, cursor) ==
  Append(sent, [filtered |-> filtered, cursor |-> CursorParam(cursor)])

\* a request and its answer: the kind of the answer and, of a page, the
\* number of its objects and its last_cursor
LogEntry(request, kind, resp) ==
  [filtered |-> request.filtered, cursor |-> request.cursor, kind |-> kind,
   length |-> IF kind \in {"ok", "nocursor"} THEN Len(resp.result.objects) ELSE 0,
   last_cursor |-> IF kind = "ok" THEN resp.result.last_cursor ELSE Undefined]
AllAnswered(log) == \A i \in 1..Len(log) : log[i].kind = "ok"
\* the first, filtered query was refused and every unfiltered one answered
RefusedThenAnswered(log) ==
  /\ Len(log) >= 2
  /\ log[1].filtered /\ log[1].kind # "ok"
  /\ \A i \in 2..Len(log) : ~log[i].filtered /\ log[i].kind = "ok"

InitEnum ==
  /\ eLedger \in Ledgers
  /\ ePc = "idle" /\ eCursor = NotRun /\ eVaults = <<>>
  /\ eRequests = <<>> /\ eLog = <<>> /\ eResult = NotRun /\ eCapable = NotRun /\ eRejecting = NotRun

\* the dashboard calls fetchVaultsForLockScript
CallFetchVaults ==
  /\ ePc \in {"idle", "returned", "threw"}
  /\ ePc' = "filtered"
  /\ eVaults' = <<>>
  /\ eCursor' = Null
  /\ eRequests' = SendGetCells(<<>>, TRUE, Null)
  /\ eLog' = <<>>
  /\ eResult' = NotRun
  /\ UNCHANGED <<eLedger, eCapable, eRejecting, nonEnumVars>>

\* the answer to a filtered get_cells request arrives: an error object or a
\* throw starts the fallback scan, a page is decoded and the scan goes on or
\* returns
FilteredResponse ==
  /\ ePc = "filtered"
  /\ \E kind \in {k \in ResponseKinds : k = "nocursor" => Len(eRequests) < MaxRequests} :
       \E resp \in {GetCellsResponse(eLedger, TRUE, eRequests[Len(eRequests)].cursor, kind)} :
         LET log == Append(eLog, LogEntry(eRequests[Len(eRequests)], kind, resp))
         IN /\ eLog' = log
            /\ IF RequestFailed(resp)
               THEN /\ ePc' = "fallback"
                    /\ eVaults' = <<>>
                    /\ eCursor' = Null
                    /\ eRequests' = SendGetCells(eRequests, FALSE, Null)
                    /\ UNCHANGED <<eResult, eCapable>>
               ELSE \E vaults \in {PushVaults(eVaults, resp.result.objects, FALSE)} :
                      /\ eVaults' = vaults
                      /\ eCursor' = NextCursor(resp.result)
                      /\ IF LastPage(resp.result.objects)
                         THEN /\ ePc' = "returned"
                              /\ eResult' = vaults
                              /\ eCapable' = IF AllAnswered(log) THEN vaults ELSE eCapable
                              /\ UNCHANGED eRequests
                         ELSE /\ eRequests' = SendGetCells(eRequests, TRUE, NextCursor(resp.result))
                              /\ UNCHANGED <<ePc, eResult, eCapable>>
  /\ UNCHANGED <<eLedger, eRejecting, nonEnumVars>>

\* the answer to an unfiltered get_cells request of the fallback arrives: a
\* throw of fetch or of res.json() leaves the call, an error object breaks the
\* loop, a page is filtered by isVaultCell and decoded
FallbackResponse ==
  /\ ePc = "fallback"
  /\ \E kind \in {k \in ResponseKinds : k = "nocursor" => Len(eRequests) < MaxRequests} :
       \E resp \in {GetCellsResponse(eLedger, FALSE, eRequests[Len(eRequests)].cursor, kind)} :
         LET log == Append(eLog, LogEntry(eRequests[Len(eRequests)], kind, resp))
         IN /\ eLog' = log
            /\ IF resp.kind \in {"rejected", "notjson"}
               THEN /\ ePc' = "threw"
                    /\ eResult' = Threw
                    /\ UNCHANGED <<eVaults, eCursor, eRequests, eRejecting>>
               ELSE IF resp.error
               THEN /\ ePc' = "returned"
                    /\ eResult' = eVaults
                    /\ UNCHANGED <<eVaults, eCursor, eRequests, eRejecting>>
               ELSE \E vaults \in {PushVaults(eVaults, resp.result.objects, TRUE)} :
                      /\ eVaults' = vaults
                      /\ eCursor' = NextCursor(resp.result)
                      /\ IF LastPage(resp.result.objects)
                         THEN /\ ePc' = "returned"
                              /\ eResult' = vaults
                              /\ eRejecting' = IF RefusedThenAnswered(log) THEN vaults
                                               ELSE eRejecting
                              /\ UNCHANGED eRequests
                         ELSE /\ eRequests' = SendGetCells(eRequests, FALSE, NextCursor(resp.result))
                              /\ UNCHANGED <<ePc, eResult, eRejecting>>
  /\ UNCHANGED <<eLedger, eCapable, nonEnumVars>>

NextEnum ==
  \/ CallFetchVaults
  \/ FilteredResponse
  \/ FallbackResponse

InitSpecEnum == IdleCodec /\ IdleTimelock /\ IdleResolve /\ InitEnum /\ IdleCapacity /\ IdleIds /\ IdleOutPoint /\ IdlePages

SpecEnum == InitSpecEnum /\ [][NextEnum]_vars

C6_Rejection ==
  cDecoded # NotRun =>
    LET data == Strip0x(cData)
        empty == data = <<>>
        magicOk == Len(data) >= 8 /\ ToLowerCase(SubSeq(data, 1, 8)) = MAGIC_HEX
        wrongVersion == magicOk /\ Len(data) >= 10 /\ SubSeq(data, 9, 10) # <<"0", "1">>
        wrongMagic == Len(data) >= 8 /\ ~magicOk
        truncatedBody == cOrigin = "truncated" /\ Len(cData) >= Len(VAULT_DATA_PREFIX)
        lacksRequired ==
          cOrigin = "foreign" /\ \E k \in RequiredKeys : GetProp(cPayload, k) = Undefined
    IN (empty \/ wrongVersion \/ wrongMagic \/ truncatedBody \/ lacksRequired)
         => cDecoded = Null

\* C7: when isVaultCell is false of some data, decodeVaultCellData returns
\* null for it
C7_PrefixAgreement ==
  (cDecoded # NotRun /\ cIsVault = JBool(FALSE)) => cDecoded = Null

\* data with a full header and body that fails the prefix check was decoded
C7_Witness ==
  /\ cIsVault = JBool(FALSE)
  /\ cDecoded = Null
  /\ cOrigin = "tampered"
  /\ Len(cData) > Len(VAULT_DATA_PREFIX)

\* C8: isVaultCell is true iff the first 5 bytes of the data are the magic
\* followed by the version byte 0x01
C8_FiveBytePrefix ==
  cIsVault # NotRun =>
    LET data == Strip0x(cData)
    IN cIsVault = JBool(/\ Len(data) >= 10
                        /\ ToLowerCase(SubSeq(data, 1, 8)) = MAGIC_HEX
                        /\ SubSeq(data, 9, 10) = <<"0", "1">>)

C18_CapacityMonotone ==
  kMin.t = "capacities" =>
    WithValue(<<Len(HexToBytes(Strip0x(encodeVaultCellData(kPayloads[1])))),
                Len(HexToBytes(Strip0x(encodeVaultCellData(kPayloads[2]))))>>,
              LAMBDA bytes :
      /\ kMin.v[1] = bytes[1] + 8 + 53 + 2
      /\ kMin.v[2] = bytes[2] + 8 + 53 + 2
      /\ bytes[1] <= bytes[2] => kMin.v[1] <= kMin.v[2])

\* the capacity was computed for a payload without optional texts and for
\* one with an owner name and a memo, of a longer encoding
C18_Witness ==
  /\ kMin.t = "capacities"
  /\ kPayloads[1].ownerName = Undefined /\ kPayloads[1].memo = Undefined
  /\ kPayloads[2].ownerName = JStr(<<110>>) /\ kPayloads[2].memo = JStr(<<34, 233>>)
  /\ kMin.v[1] < kMin.v[2]

(***************************************************************************)
(* Properties of the timelock encoder                                      *)
(***************************************************************************)
\* the consensus rule the claim of a vault is validated under: the input is
\* mature iff the height of the tip, or for the timestamp metric its time, is
\* strictly greater than the low 56 bits of the since value
Mature(since, tip) ==
  LET current == IF (since[1] \div 8192) % 4 = 2 THEN tip.timestamp ELSE tip.blockNumber
  IN LimbsLess(<<since[1] % 256, since[2], since[3], since[4]>>, Limbs(current))

\* C2: for an integer value v the since value of the vault input is
\* max(0, v - 1) with no flag bit for a block height v, and 2^62 + max(0, v - 1)
\* for a timestamp v (the four 16-bit limbs, most significant first; 2^62 is
\* bit 14 of the first limb); {blockHeight, 500} gives 499, {blockHeight, 0}
\* gives 0 and {timestamp, 1700000000} gives 2^62 + 1699999999
C2_SinceAdjusted ==
  (tSince # NotRun /\ ~ToNumber(tUnlock.value).frac) =>
    LET v == ToNumber(tUnlock.value).int
        adjusted == IF LimbsLess(v, Limbs(1)) THEN Limbs(0) ELSE LimbsMinus(v, 1)
    IN /\ tUnlock.type = JStr(S_blockHeight) => tSince = adjusted
       /\ tUnlock.type = JStr(S_timestamp) =>
            tSince = <<16384 + adjusted[1], adjusted[2], adjusted[3], adjusted[4]>>
       /\ tUnlock = [type |-> JStr(S_blockHeight), value |-> JNum(500)] =>
            tSince = <<0, 0, 0, 499>>
       /\ tUnlock = [type |-> JStr(S_blockHeight), value |-> JNum(0)] =>
            tSince = <<0, 0, 0, 0>>
       /\ tUnlock = [type |-> JStr(S_timestamp), value |-> JNum(1700000000)] =>
            tSince = <<16384, 0, 25939, 61695>>

\* C3: isUnlockConditionSatisfied is true iff the current height is at least
\* the value of a blockHeight condition, whatever the timestamp, and iff the
\* current timestamp is at least the value of a timestamp condition, whatever
\* the height: true at the threshold, false one below it
C3_UnadjustedThreshold ==
  tSatisfied # NotRun =>
    LET v == ToNumber(tUnlock.value)
        current == Limbs(IF tUnlock.type = JStr(S_blockHeight) THEN tTip.blockNumber
                         ELSE tTip.timestamp)
        atLeast == IF v.frac THEN LimbsLess(v.int, current) ELSE ~LimbsLess(current, v.int)
    IN /\ tUnlock.type \in {JStr(S_blockHeight), JStr(S_timestamp)}
       /\ tSatisfied = JBool(atLeast)
       /\ (~v.frac /\ current = v.int) => tSatisfied = JBool(TRUE)
       /\ (~v.frac /\ LimbsLess(Limbs(0), v.int) /\ current = LimbsMinus(v.int, 1)) =>
            tSatisfied = JBool(FALSE)

\* a blockHeight condition of 1000 was evaluated one block below its
\* threshold, at a timestamp past every timestamp threshold
C3_Witness ==
  /\ tUnlock = [type |-> JStr(S_blockHeight), value |-> JNum(1000)]
  /\ tTip = [blockNumber |-> 999, timestamp |-> 1700000001]
  /\ tSatisfied = JBool(FALSE)

\* C16: for an integer value v, 0 <= v < 2^56, the since value has bit 63
\* clear, bits 62-61 equal to 00 for a blockHeight condition and to 10 for a
\* timestamp condition, bits 60-56 clear, and max(0, v - 1) in its low 56 bits
C16_SinceLayout ==
  (tSince # NotRun /\ ~ToNumber(tUnlock.value).frac /\ ~ToNumber(tUnlock.value).neg
     /\ ToNumber(tUnlock.value).int[1] < 256) =>
    LET v == ToNumber(tUnlock.value).int
    IN /\ tSince[1] \div 32768 = 0
       /\ (tSince[1] \div 8192) % 4 = (IF tUnlock.type = JStr(S_blockHeight) THEN 0 ELSE 2)
       /\ (tSince[1] \div 256) % 32 = 0
       /\ <<tSince[1] % 256, tSince[2], tSince[3], tSince[4]>>
            = (IF v = Limbs(0) THEN v ELSE LimbsMinus(v, 1))

\* C17: for a value v >= 0 and any tip, the claim carrying the since value is
\* accepted under the consensus rule (the input is mature) iff
\* isUnlockConditionSatisfied is true at that tip
C17_BoundaryConsistency ==
  (tSince # NotRun /\ tSatisfied # NotRun /\ ~ToNumber(tUnlock.value).neg) =>
    (tSatisfied = JBool(tSince # Threw /\ Mature(tSince, tTip)))

\* C20: neither the codec nor the timelock operations throw: decodeVaultCellData
\* and isVaultCell return a value for every string, the since encoding and
\* isUnlockConditionSatisfied for every unlock condition
C20_Totality ==
  /\ cDecoded # Threw /\ cIsVault # Threw
  /\ tSince # Threw /\ tSatisfied # Threw

(***************************************************************************)
(* Properties of the resolver                                              *)
(***************************************************************************)
\* C4: in every vault fetchVaultFromTransaction returns, isLive is true only
\* if the status is committed and get_live_cell answered live; a committed
\* transaction whose get_live_cell answer is unknown gives committed and not
\* live; any other reported status is returned as it is, not live, and no
\* get_live_cell request was issued
C4_StatusMerge ==
  (rPc = "done" /\ IsVaultFromTx(rResult)) =>
    /\ rResult.isLive =>
         /\ rResult.txStatus = "committed"
         /\ rLiveResp # NotRun
         /\ rLiveResp.kind = "json" /\ ~rLiveResp.error
         /\ rLiveResp.result = LiveCell("live")
    /\ (rTx.tx_status # Undefined /\ rTx.tx_status.status = "committed"
          /\ rLiveResp = RpcResult(LiveCell("unknown"))) =>
         (rResult.txStatus = "committed" /\ ~rResult.isLive)
    /\ (rTx.tx_status # Undefined
          /\ rTx.tx_status.status \in {"pending", "proposed", "rejected", "unknown"}) =>
         /\ rResult.txStatus = rTx.tx_status.status
         /\ ~rResult.isLive
         /\ \A i \in 1..Len(rRequests) : rRequests[i] # "get_live_cell"

\* a committed vault whose get_live_cell answer was unknown has been returned
C4_Witness ==
  /\ rPc = "done" /\ IsVaultFromTx(rResult)
  /\ rTx.tx_status # Undefined /\ rTx.tx_status.status = "committed"
  /\ rLiveResp = RpcResult(LiveCell("unknown"))
  /\ rResult.txStatus = "committed" /\ ~rResult.isLive

\* C9: when the get_live_cell request fails (transport failure, unparsable
\* response or JSON-RPC error object), isCellLive returns false and
\* fetchVaultFromTransaction returns the vault as committed and not live
C9_FailClosed ==
  /\ (lPc = "done" /\ RequestFailed(lResp)) => lResult = JBool(FALSE)
  /\ (rPc = "done" /\ rLiveResp # NotRun /\ RequestFailed(rLiveResp)) =>
       /\ IsVaultFromTx(rResult)
       /\ rResult.txStatus = "committed"
       /\ rResult.isLive = FALSE

\* isCellLive has returned after a JSON-RPC error and fetchVaultFromTransaction
\* after an unparsable get_live_cell response
C9_Witness ==
  /\ lPc = "done" /\ lResp = RpcError /\ lResult = JBool(FALSE)
  /\ rPc = "done" /\ rLiveResp = NotJson
  /\ IsVaultFromTx(rResult) /\ rResult.isLive = FALSE

\* C14: when the node answers get_transaction with a result that holds no
\* transaction, or whose transaction has no output at the index, or whose
\* output data at the index does not decode, fetchVaultFromTransaction
\* returns null, does not throw, and has not requested get_live_cell
C14_NotFoundIsNull ==
  (rPc = "done" /\ rTxResp.kind = "json" /\ ~rTxResp.error /\ rTxResp.result # Undefined) =>
    LET r == rTxResp.result
        noTransaction == r = Null \/ r.transaction = Null
        noOutput == ~noTransaction /\ Len(r.transaction.outputs) <= rQuery.index
        undecodable ==
          /\ ~noTransaction /\ ~noOutput
          /\ decodeVaultCellData(r.transaction.outputs_data[rQuery.index + 1].v) = Null
    IN (noTransaction \/ noOutput \/ undecodable) =>
         /\ rResult = Null
         /\ \A i \in 1..Len(rRequests) : rRequests[i] # "get_live_cell"

\* the call has returned null for an output that carries the header and a
\* body that does not parse
C14_Witness ==
  /\ rPc = "done" /\ rTxResp # NotRun /\ rTxResp.kind = "json" /\ ~rTxResp.error
  /\ rTxResp.result \notin {Undefined, Null}
  /\ rTxResp.result.transaction # Null
  /\ rTxResp.result.transaction.outputs_data = <<JStr(BadBodyData)>>
  /\ rQuery.index = 0
  /\ rResult = Null
  /\ rRequests = <<"get_transaction">>

\* C15: when get_transaction is answered with a non-2xx status, or with a body
\* that has neither a result nor an error member, fetchVaultFromTransaction
\* throws; it returns null only when the node answered with a 2xx status and
\* a JSON-RPC result
C15_TransportFailureSurfaces ==
  rPc = "done" =>
    /\ (~rTxResp.ok \/ (rTxResp.kind = "json" /\ ~rTxResp.error /\ rTxResp.result = Undefined)) =>
         rResult = Threw
    /\ rResult = Null =>
         /\ rTxResp.ok /\ rTxResp.kind = "json" /\ ~rTxResp.error
         /\ rTxResp.result # Undefined

C5_FallbackEquivalence ==
  (eCapable # NotRun /\ eRejecting # NotRun) =>
    {eCapable[i] : i \in 1..Len(eCapable)} = {eRejecting[i] : i \in 1..Len(eRejecting)}

\* both calls have returned over a ledger of more than two pages that mixes
\* vaults with cells of another version, undecodable cells and plain cells
C5_Witness ==
  /\ eCapable # NotRun /\ eRejecting # NotRun
  /\ eLedger.count = 2 * PageLimit + 1
  /\ eLedger.pattern = <<1, 5, 3, 4, 2, 6>>
  /\ Len(eRejecting) >= PageLimit

\* C10: a call of fetchVaultsForLockScript during which a get_cells request
\* of the unfiltered fallback scan failed (JSON-RPC error or transport
\* failure) never returns a list of vaults: it ends with an error
C10_NoSilentFailure ==
  ePc = "returned" =>
    \A i \in 1..Len(eLog) : ~eLog[i].filtered => eLog[i].kind \in {"ok", "nocursor"}

\* C11: the unfiltered scan starts only after the indexer answered a filtered
\* query with a JSON-RPC error; when a filtered request is not answered
\* (network failure) or its answer does not parse, the call throws and issues
\* no unfiltered request
C11_FallbackOnlyOnRejection ==
  \A i \in 1..Len(eLog) :
    (eLog[i].filtered /\ eLog[i].kind \in {"rejected", "notjson"}) =>
      /\ ePc = "threw"
      /\ \A j \in 1..Len(eRequests) : eRequests[j].filtered

\* C12: every request after the first of its scan carries the last_cursor of
\* the page before it and the first of a scan carries none; a scan issues no
\* request after a page of fewer than PageLimit objects and goes on after a
\* full one; and the list the call returns holds the vault of every cell of
\* the ledger that decodes, once each, in the order of the indexer
C12_StablePagination ==
  /\ \A n \in 1..Len(eRequests) :
       IF n > 1 /\ eRequests[n - 1].filtered = eRequests[n].filtered
       THEN eRequests[n].cursor = eLog[n - 1].last_cursor
       ELSE eRequests[n].cursor = Undefined
  /\ \A n \in 1..Len(eLog) :
       eLog[n].kind = "ok" =>
         IF eLog[n].length < PageLimit
         THEN Len(eRequests) = n /\ ePc = "returned"
         ELSE Len(eRequests) > n /\ eRequests[n + 1].filtered = eLog[n].filtered
  /\ ePc = "returned" =>
       LET decoding == SelectSeq([i \in 1..eLedger.count |-> i],
                                 LAMBDA i : DecodeCell(Cell(eLedger, i)) # Null)
       IN eResult = [j \in 1..Len(decoding) |->
                       OnChainVault(Cell(eLedger, decoding[j]),
                                    DecodeCell(Cell(eLedger, decoding[j])))]

\* C13: at most one get_cells request is unanswered at any time, and each
\* request but the first was issued after the answer to the one before it
\* had come, with the cursor read from that answer
C13_SequentialPagination ==
  /\ Len(eLog) <= Len(eRequests)
  /\ Len(eRequests) <= Len(eLog) + 1
  /\ (Len(eRequests) = Len(eLog) + 1) = (ePc \in {"filtered", "fallback"})
  /\ \A n \in 2..Len(eRequests) :
       eLog[n - 1].kind = "ok" => eRequests[n].cursor = eLog[n - 1].last_cursor

\* the request for the third page of a filtered scan is the only one
\* unanswered
C13_Witness ==
  /\ ePc = "filtered"
  /\ Len(eRequests) = 3 /\ Len(eLog) = 2
  /\ eRequests[3].cursor = eLog[2].last_cursor
  /\ eRequests[3].cursor # eRequests[2].cursor

\* the objects of the pages the indexer returned to the requests of the log,
\* one after the other
RECURSIVE PagesOf(_, _)
PagesOf(ledger, log) ==
  IF log = <<>> THEN <<>>
  ELSE PagesOf(ledger, SubSeq(log, 1, Len(log) - 1))
         \o IndexerPage(ledger, log[Len(log)].filtered, log[Len(log)].cursor).objects

\* C28: a call whose filtered queries were all answered returns, in page
\* order, one vault for each cell of the pages whose data decodes, with the
\* out point and the payload of the cell and the status live; a page with
\* cells that do not decode neither ends the scan (the call returns after a
\* page of fewer than 100 objects only) nor starts the unfiltered scan
C28_EnumerationContent ==
  (ePc = "returned" /\ \A i \in 1..Len(eLog) : eLog[i].filtered /\ eLog[i].kind = "ok") =>
    WithValue(SelectSeq(PagesOf(eLedger, eLog),
                        LAMBDA cell : decodeVaultCellData(cell.output_data.v) # Null),
              LAMBDA decodable :
      /\ Len(eResult) = Len(decodable)
      /\ \A j \in 1..Len(decodable) :
           /\ eResult[j].outPoint.txHash = decodable[j].out_point.tx_hash
           /\ eResult[j].data = DecodeCell(decodable[j])
           /\ eResult[j].status = "live"
      /\ \A i \in 1..Len(eLog) : (eLog[i].length < PageLimit) <=> (i = Len(eLog))
      /\ \A i \in 1..Len(eRequests) : eRequests[i].filtered)

\* C29: a call of fetchVaultsForLockScript over a ledger of n live cells
\* ends after finitely many get_cells requests: each of its two scans needs at
\* most n / 100 + 1 pages (the last of them short, empty when n is a multiple
\* of 100), so a call never issues more than 2 * (n / 100 + 1) requests
C29_EnumerationTerminates ==
  Len(eRequests) <= 2 * ((eLedger.count \div PageLimit) + 1)

\* a filtered scan of two pages returned fewer vaults than the indexer
\* returned cells: a cell of the pages did not decode
C28_Witness ==
  /\ ePc = "returned"
  /\ Len(eLog) = 2 /\ eLog[1].filtered /\ eLog[2].filtered
  /\ eLog[1].kind = "ok" /\ eLog[2].kind = "ok"
  /\ eLog[2].length > 0
  /\ Len(eResult) > 0
  /\ Len(eResult) < eLog[1].length + eLog[2].length

(***************************************************************************)
(* The ids of the JSON-RPC requests                                        *)
(***************************************************************************)
\* the clock readings and the requests of a run
MaxClock == 3
MaxIssued == 4

\* the body of a request: id: Date.now()
RequestOf(method) == [method |-> method, id |-> nNow]

\* a millisecond passes
Tick ==
  /\ nNow < MaxClock
  /\ nNow' = nNow + 1
  /\ UNCHANGED <<nIssued, nonIdsVars>>

\* rpcCall(url, method, params) sends its request (getTipHeader, isCellLive,
\* getCellByOutPointViaRpc)
RpcCallSends ==
  /\ Len(nIssued) < MaxIssued
  /\ \E method \in {"get_tip_header", "get_live_cell"} :
       nIssued' = Append(nIssued, RequestOf(method))
  /\ UNCHANGED <<nNow, nonIdsVars>>

\* fetchVaultsForLockScript or getCellByOutPoint sends a get_cells request
GetCellsSends ==
  /\ Len(nIssued) < MaxIssued
  /\ nIssued' = Append(nIssued, RequestOf("get_cells"))
  /\ UNCHANGED <<nNow, nonIdsVars>>

\* fetchVaultFromTransaction sends its get_transaction request
GetTransactionSends ==
  /\ Len(nIssued) < MaxIssued
  /\ nIssued' = Append(nIssued, RequestOf("get_transaction"))
  /\ UNCHANGED <<nNow, nonIdsVars>>

NextIds ==
  \/ Tick
  \/ RpcCallSends
  \/ GetCellsSends
  \/ GetTransactionSends

InitSpecIds == IdleCodec /\ IdleTimelock /\ IdleResolve /\ IdleEnum /\ IdleCapacity /\ IdleIds /\ IdleOutPoint /\ IdlePages

SpecIds == InitSpecIds /\ [][NextIds]_vars

\* C24: no two requests the client has sent carry the same id, and the ids
\* never decrease: each request's id is greater than the id of every request
\* sent before it, also when both are sent within one millisecond
C24_RequestIdsUnique ==
  \A i, j \in 1..Len(nIssued) : i < j => nIssued[i].id < nIssued[j].id

(***************************************************************************)
(* getCellByOutPoint and getCellByOutPointViaRpc                           *)
(***************************************************************************)
\* the outpoints asked for: the first cell of the indexer's ascending order,
\* the last of its first page, the first of its second page, later ones
QueriedHashes == {1, 100, 101, 150, 999}
OutPointQueries == [txHash : QueriedHashes, index : {0, 1, 2}]

\* the outpoint is one of the ledger's live cells
IsLiveOutPoint(ledger, outPoint) ==
  /\ outPoint.txHash \in 1..ledger.count
  /\ outPoint.index = outPoint.txHash % 3

\* the get_cells request of getCellByOutPoint carries script: null, order
\* "asc", limit "0x64" and no cursor: an indexer that answers it serves the
\* first PageLimit live cells
FirstPage(ledger) ==
  [objects |-> [i \in 1..Min(ledger.count, PageLimit) |-> Cell(ledger, i)]]
\* the answers of the indexer: an error (script: null is no valid search key),
\* a transport failure, a body that is no JSON, a body without result, a page
IndexerAnswers(ledger) ==
  {RpcError, Rejected, NotJson, RpcResult(Undefined), RpcResult(FirstPage(ledger))}

\* the transaction the node reports for the outpoint's hash
NodeTransaction(outPoint, history) ==
  CASE history = "notx" -> Null
    [] history = "nooutput" ->
         [transaction |-> [outputs |-> [i \in 1..outPoint.index |-> Output],
                           outputs_data |-> [i \in 1..outPoint.index |-> JStr(PlainData)]],
          tx_status |-> [status |-> "committed", block_number |-> JStr(<<"0", "x", "1", "f", "4">>)]]
    [] OTHER ->
         [transaction |-> [outputs |-> [i \in 1..(outPoint.index + 1) |-> Output],
                           outputs_data |-> [i \in 1..(outPoint.index + 1) |-> JStr(ValidData)]],
          tx_status |-> [status |-> "committed", block_number |-> JStr(<<"0", "x", "1", "f", "4">>)]]
\* the answers of the node to get_transaction
NodeAnswers(outPoint, history) ==
  {RpcError, Rejected, NotJson, RpcResult(NodeTransaction(outPoint, history)),
   RpcResult([transaction |-> Null, tx_status |-> [status |-> "unknown", block_number |-> Null]])}

\* cells.find(cell => cell.out_point.tx_hash === outPoint.txHash &&
\*                    parseInt(cell.out_point.index, 16) === outPoint.index) || null
FindCell(cells, outPoint) ==
  WithValue(SelectSeq(cells, LAMBDA cell :
                        /\ cell.out_point.tx_hash = outPoint.txHash
                        /\ ~ParseInt16(cell.out_point.index.v).nan
                        /\ ParseInt16(cell.out_point.index.v).v = outPoint.index),
            LAMBDA found : IF found = <<>> THEN Null ELSE found[1])

\* the indexer part of getCellByOutPoint: [threw, value]
CellFromIndexer(outPoint, resp) ==
  IF resp.kind \in {"rejected", "notjson"} THEN [threw |-> TRUE, value |-> Undefined]
  ELSE IF resp.error THEN [threw |-> TRUE, value |-> Undefined]
  ELSE IF resp.result \in {Null, Undefined} THEN [threw |-> FALSE, value |-> Null]
  ELSE [threw |-> FALSE, value |-> FindCell(resp.result.objects, outPoint)]

\* getCellByOutPointViaRpc(network, outPoint), given the response to its
\* get_transaction request
getCellByOutPointViaRpc(outPoint, resp) ==
  LET r == rpcCall(resp)
  IN IF r.threw THEN Null
     ELSE IF r.value \in {Null, Undefined} THEN Null
     ELSE IF r.value.transaction \in {Null, Undefined} THEN Null
     ELSE LET output == ArrayGet(r.value.transaction.outputs, outPoint.index)
              outputData == ArrayGet(r.value.transaction.outputs_data, outPoint.index)
          IN IF output = Undefined THEN Null
             ELSE [output |-> output,
                   output_data |-> OrElse(outputData, JStr(<<"0", "x">>)),
                   out_point |-> [tx_hash |-> outPoint.txHash,
                                  index |-> JStr(<<"0", "x", HexDigits[outPoint.index + 1]>>)]]

InitOutPoint ==
  /\ oLedger \in [count : CellCounts, pattern : {<<1>>, <<5>>}]
  /\ oQuery \in OutPointQueries
  /\ oHistory \in IF IsLiveOutPoint(oLedger, oQuery) THEN {"live"}
                  ELSE {"spent", "nooutput", "notx"}
  /\ oPc = "idle" /\ oIndexerResp = NotRun /\ oRpcResp = NotRun /\ oResult = NotRun

\* getCellByOutPoint is called: get_cells is requested
CallGetCellByOutPoint ==
  /\ oPc = "idle" /\ oLedger # NotRun
  /\ oPc' = "awaitIndexer"
  /\ UNCHANGED <<oLedger, oQuery, oHistory, oIndexerResp, oRpcResp, oResult, nonOutPointVars>>

\* the indexer's response arrives: the call returns the match or null, or
\* catches the failure and requests get_transaction
IndexerResponse ==
  /\ oPc = "awaitIndexer"
  /\ \E resp \in IndexerAnswers(oLedger) :
       /\ oIndexerResp' = resp
       /\ \E r \in {CellFromIndexer(oQuery, resp)} :
            IF r.threw
            THEN oPc' = "awaitRpc" /\ UNCHANGED oResult
            ELSE oPc' = "done" /\ oResult' = r.value
  /\ UNCHANGED <<oLedger, oQuery, oHistory, oRpcResp, nonOutPointVars>>

\* the node's response arrives: getCellByOutPointViaRpc returns
NodeResponse ==
  /\ oPc = "awaitRpc"
  /\ \E resp \in NodeAnswers(oQuery, oHistory) :
       /\ oRpcResp' = resp
       /\ oResult' = getCellByOutPointViaRpc(oQuery, resp)
  /\ oPc' = "done"
  /\ UNCHANGED <<oLedger, oQuery, oHistory, oIndexerResp, nonOutPointVars>>

NextOutPoint ==
  \/ CallGetCellByOutPoint
  \/ IndexerResponse
  \/ NodeResponse

InitSpecOutPoint == IdleCodec /\ IdleTimelock /\ IdleResolve /\ IdleEnum /\ IdleCapacity /\ IdleIds /\ InitOutPoint /\ IdlePages

SpecOutPoint == InitSpecOutPoint /\ [][NextOutPoint]_vars

\* C25: when getCellByOutPoint has returned and every request it relied on
\* was answered (the indexer's page, or the node's transaction after an
\* indexer failure), its result is a cell exactly when the outpoint is a live
\* cell of the ledger: null for a spent or missing one, the cell for a live
\* one, wherever it stands among the live cells
C25_CellIffLive ==
  (oPc = "done" /\ (oRpcResp = NotRun \/ ~RequestFailed(oRpcResp))) =>
    ((oResult # Null) <=> IsLiveOutPoint(oLedger, oQuery))

(***************************************************************************)
(* The pages over one vault: CreateVaultPage, VaultDetailPage,             *)
(* VaultListPage and localStorage                                          *)
(***************************************************************************)
\* no page is opened once the email API has sent MaxMails emails
MaxMails == 1
\* the detail pages open at once (tabs of one browser)
Pages == {1, 2}

\* the vault's outpoint, the addresses "a" of its owner and "ckt1b" of the
\* owner of its lock, and an email
VaultOutPoint == [txHash |-> "0xaa", index |-> 0]
OwnerAddress == <<97>>
BeneficiaryAddress == <<99, 107, 116, 49, 98>>
\* the beneficiary's address as the owner types it, in capitals
TypedAddress == <<67, 75, 84, 49, 66>>
Wallets == {JStr(OwnerAddress), JStr(BeneficiaryAddress)}
BeneficiaryEmail == <<98, 64, 120>>
\* the address of a lock script
AddressOfLock(lock) == IF lock.args = "0xb1" THEN BeneficiaryAddress ELSE <<>>
\* the tips the pages see: below the vault's unlock height 500, and at it
PageTips == {499, 500}
TxPhases == {"unknown", "pending", "proposed", "committed", "rejected"}

\* String.prototype.toLowerCase of an ASCII string
AddressLower(s) == [i \in 1..Len(s) |-> IF s[i] >= 65 /\ s[i] <= 90 THEN s[i] + 32 ELSE s[i]]

\* the vault cell is on the chain and no committed transaction has spent it
CellLive(tx, claim) == tx = "committed" /\ claim # "committed"

\* what the node answers to get_transaction for the vault's hash: the truth,
\* a transport failure, or a gateway's body without result
NodeTxResponses(tx) ==
  {Rejected, RpcResult(Undefined)}
    \cup (IF tx \in {"unknown", "rejected"}
          THEN {RpcResult([transaction |-> Null,
                           tx_status |-> [status |-> tx, block_number |-> Null]])}
          ELSE {})
    \cup (IF tx # "unknown"
          THEN {RpcResult([transaction |-> [outputs |-> <<Output>>,
                                            outputs_data |-> <<JStr(ValidData)>>],
                           tx_status |-> [status |-> tx,
                                          block_number |-> IF tx = "committed"
                                                           THEN JStr(<<"0", "x", "1", "f", "4">>)
                                                           ELSE Null]])}
          ELSE {})
\* and to get_live_cell for its outpoint
NodeLiveResponses(live) ==
  {Rejected, RpcResult(LiveCell(IF live THEN "live" ELSE "unknown"))}

\* fetchVaultFromTransaction(network, txHash, index), given the responses to
\* its requests: a VaultFromTx, Null, or Threw
fetchVaultFromTransaction(query, txResp, liveResp) ==
  IF RequestFailed(txResp) THEN Threw
  ELSE WithValue(VaultCellOf(txResp.result, query.index), LAMBDA decoded :
         IF decoded = Null THEN Null
         ELSE VaultFromTx(query, txResp.result, decoded,
                          ChecksLiveness(TxStatusOf(txResp.result)) /\ IsLiveFrom(liveResp)))
\* what a call can return, per state of the transaction and of the cell
ResolveTable ==
  [tx \in TxPhases |-> [live \in BOOLEAN |->
     {fetchVaultFromTransaction(VaultOutPoint, txResp, liveResp) :
        txResp \in NodeTxResponses(tx), liveResp \in NodeLiveResponses(live)}]]
\* what a call can return in the given state of the chain
ResolveOutcomes(tx, claim) == ResolveTable[tx][CellLive(tx, claim)]

\* the amount "250" the owner typed, the string capacityCKB is for the
\* cell's 25,000,000,000 shannons
TypedAmount == CapacityCKB(Output.capacity.v)
\* the record CreateVaultPage saves after sending the transaction
CreatedRecord(typed, email) ==
  [txHash |-> VaultOutPoint.txHash, index |-> VaultOutPoint.index,
   beneficiaryAddress |-> JStr(typed), amountCKB |-> TypedAmount,
   unlock |-> SamplePayload.unlock, memo |-> Undefined,
   ownerAddress |-> JStr(OwnerAddress), ownerName |-> Undefined,
   status |-> "pending", beneficiaryEmail |-> email, claimableEmailSent |-> Undefined]

\* newStatus of the detail page
DetailStatus(chainResult) ==
  IF chainResult.isLive THEN "live"
  ELSE IF chainResult.txStatus = "committed" THEN "spent"
  ELSE IF chainResult.txStatus \in {"pending", "proposed"} THEN "pending"
  ELSE "spent"
\* newStatus of the list page's refresh
ListStatus(result, v) ==
  IF result.isLive THEN "live"
  ELSE IF result.txStatus = "committed" THEN "spent"
  ELSE IF result.txStatus \in {"pending", "proposed"} THEN "pending"
  ELSE v.status
\* status of the record handleImport adds
ImportStatus(result) == IF result.isLive THEN "live" ELSE "spent"

\* the record the detail page builds from the chain result and the cache
DetailRecord(cached, chainResult) ==
  [txHash |-> VaultOutPoint.txHash, index |-> VaultOutPoint.index,
   beneficiaryAddress |-> IF cached # Null THEN OrElse(cached.beneficiaryAddress, JStr(<<>>))
                          ELSE JStr(<<>>),
   amountCKB |-> chainResult.capacityCKB,
   unlock |-> chainResult.data.unlock, memo |-> chainResult.data.memo,
   ownerAddress |-> chainResult.data.ownerAddress, ownerName |-> chainResult.data.ownerName,
   status |-> DetailStatus(chainResult),
   beneficiaryEmail |-> IF cached # Null THEN cached.beneficiaryEmail ELSE Undefined,
   claimableEmailSent |-> IF cached # Null THEN cached.claimableEmailSent ELSE Undefined]
\* the record handleImport adds
ImportedRecord(result) ==
  [txHash |-> VaultOutPoint.txHash, index |-> VaultOutPoint.index,
   beneficiaryAddress |-> JStr(<<>>), amountCKB |-> result.capacityCKB,
   unlock |-> result.data.unlock, memo |-> result.data.memo,
   ownerAddress |-> result.data.ownerAddress, ownerName |-> result.data.ownerName,
   status |-> ImportStatus(result),
   beneficiaryEmail |-> Undefined, claimableEmailSent |-> Undefined]

\* updateVault(updated): the stored record of the outpoint is replaced, if
\* there is one
updateVault(store, updated) == IF store = Null THEN Null ELSE updated

\* the value the canClaim effect sets:
\* isBeneficiary && isUnlocked && (onChainData?.isLive ?? vault.status === "live")
CanClaimValue(page, signer) ==
  IF page.vault = Null \/ signer = Null THEN FALSE
  ELSE /\ AddressLower(signer.v) = AddressLower(page.vault.beneficiaryAddress.v)
       /\ page.isUnlocked
       /\ IF page.onChainData # Null THEN page.onChainData.isLive
          ELSE page.vault.status = "live"

\* the email effect sends unless one of its guards returns
SendsEmail(vault, isUnlocked) ==
  /\ vault # Null
  /\ isUnlocked
  /\ Truthy(vault.beneficiaryEmail)
  /\ ~Truthy(vault.claimableEmailSent)
  /\ vault.status # "spent"

\* a detail page that is not open
ClosedPage ==
  [pc |-> "closed", cached |-> Null, vault |-> Null, onChainData |-> Null,
   isUnlocked |-> FALSE, canClaim |-> FALSE, mail |-> "none", mailVault |-> Null]

\* the page after the canClaim effect, which React runs after every render
\* that changed vault, signer, isUnlocked or onChainData
Rendered(page, signer) == [page EXCEPT !.canClaim = CanClaimValue(page, signer)]

\* a status recorded on a path from a resolve result
Recording(path, result, status) ==
  [path |-> path, txStatus |-> result.txStatus, isLive |-> result.isLive, status |-> status]

InitPages ==
  /\ gTx = "unknown" /\ gClaim = "none"
  /\ gTip \in PageTips
  /\ gSigner \in Wallets \cup {Null}
  /\ gStore = Null
  /\ gPages = [p \in Pages |-> ClosedPage]
  /\ gMails = 0
  /\ gRecorded = NotRun

\* the wallet is connected, changed or disconnected
SwitchWallet ==
  /\ \E signer \in Wallets \cup {Null} :
       /\ signer # gSigner
       /\ gSigner' = signer
       /\ gPages' = [p \in Pages |-> IF gPages[p].pc = "closed" THEN gPages[p]
                                     ELSE Rendered(gPages[p], signer)]
  /\ gRecorded' = NotRun
  /\ UNCHANGED <<gTx, gClaim, gTip, gStore, gMails, nonPagesVars>>

\* CreateVaultPage: the owner sends the creating transaction and the record
\* is saved with status pending
CreateVault ==
  /\ gTx = "unknown" /\ gSigner = JStr(OwnerAddress) /\ gStore = Null
  /\ gTx' = "pending"
  /\ \E email \in {Undefined, JStr(BeneficiaryEmail)} :
       gStore' = CreatedRecord(TypedAddress, email)
  /\ gRecorded' = NotRun
  /\ UNCHANGED <<gClaim, gTip, gSigner, gPages, gMails, nonPagesVars>>

\* the vault is created from another browser
CreatedElsewhere ==
  /\ gTx = "unknown"
  /\ gTx' = "pending"
  /\ gRecorded' = NotRun
  /\ UNCHANGED <<gClaim, gTip, gSigner, gStore, gPages, gMails, nonPagesVars>>

\* the chain moves on: the creating transaction is proposed, committed or
\* rejected, the claiming transaction is committed, a block is mined, or the
\* beneficiary claims from another browser
ChainAdvances ==
  /\ \/ gTx = "pending" /\ gTx' \in {"proposed", "rejected"} /\ UNCHANGED <<gClaim, gTip>>
     \/ gTx = "proposed" /\ gTx' = "committed" /\ UNCHANGED <<gClaim, gTip>>
     \/ gClaim = "sent" /\ gClaim' = "committed" /\ UNCHANGED <<gTx, gTip>>
     \/ gTip + 1 \in PageTips /\ gTip' = gTip + 1 /\ UNCHANGED <<gTx, gClaim>>
     \/ /\ CellLive(gTx, gClaim) /\ gClaim = "none"
        /\ isUnlockConditionSatisfied(SamplePayload.unlock, gTip, 0)
        /\ gClaim' = "sent" /\ UNCHANGED <<gTx, gTip>>
  /\ gRecorded' = NotRun
  /\ UNCHANGED <<gSigner, gStore, gPages, gMails, nonPagesVars>>

\* a detail page is opened (or reloaded): the cached record is read and shown
\* and fetchVaultFromTransaction is called (of the pages that are closed, the
\* one of the lowest number is opened)
OpenPage(p) ==
  /\ gPages[p].pc = "closed" /\ gTx # "unknown" /\ gMails < MaxMails
  /\ \A q \in Pages : q < p => gPages[q].pc # "closed"
  /\ gPages' = [gPages EXCEPT ![p] =
                  Rendered([ClosedPage EXCEPT !.pc = "resolving", !.cached = gStore,
                                              !.vault = gStore], gSigner)]
  /\ gRecorded' = NotRun
  /\ UNCHANGED <<gTx, gClaim, gTip, gSigner, gStore, gMails, nonPagesVars>>

\* fetchVaultFromTransaction returns to the load effect: the chain result is
\* kept, the record is built from it, shown, and written over a cached one;
\* a throw ends the load
ResolveReturns(p) ==
  /\ gPages[p].pc = "resolving"
  /\ \E chainResult \in ResolveOutcomes(gTx, gClaim) :
       IF chainResult = Threw
       THEN /\ gPages' = [gPages EXCEPT ![p].pc = "loaded"]
            /\ gRecorded' = NotRun
            /\ UNCHANGED gStore
       ELSE IF chainResult = Null
       THEN /\ gPages' = [gPages EXCEPT ![p].pc = "tip"]
            /\ gRecorded' = NotRun
            /\ UNCHANGED gStore
       ELSE \E record \in {DetailRecord(gPages[p].cached, chainResult)} :
              /\ gPages' = [gPages EXCEPT ![p] =
                              Rendered([gPages[p] EXCEPT !.pc = "tip", !.onChainData = chainResult,
                                                         !.vault = record], gSigner)]
              /\ gStore' = IF gPages[p].cached # Null THEN updateVault(gStore, record) ELSE gStore
              /\ gRecorded' = Recording("detail", chainResult, record.status)
  /\ UNCHANGED <<gTx, gClaim, gTip, gSigner, gMails, nonPagesVars>>

\* getTipHeader returns to the load effect: isUnlocked is set, and the email
\* effect, run for the change of isUnlocked, sends unless a guard returns;
\* a throw ends the load
TipReturns(p) ==
  /\ gPages[p].pc = "tip"
  /\ \E threw \in BOOLEAN :
       IF threw THEN gPages' = [gPages EXCEPT ![p].pc = "loaded"]
       ELSE LET page == gPages[p]
                unlock == IF page.onChainData # Null THEN page.onChainData.data.unlock
                          ELSE IF page.cached # Null THEN page.cached.unlock
                          ELSE [type |-> JStr(S_blockHeight), value |-> JNum(0)]
                unlocked == isUnlockConditionSatisfied(unlock, gTip, 0)
                sends == SendsEmail(page.vault, unlocked)
            IN gPages' = [gPages EXCEPT ![p] =
                            Rendered([page EXCEPT !.pc = "loaded", !.isUnlocked = unlocked,
                                                  !.mail = IF sends THEN "sending" ELSE "none",
                                                  !.mailVault = IF sends THEN page.vault ELSE Null],
                                     gSigner)]
  /\ gRecorded' = NotRun
  /\ UNCHANGED <<gTx, gClaim, gTip, gSigner, gStore, gMails, nonPagesVars>>

\* sendVaultClaimableEmail resolves: if the email went out, the vault the
\* effect ran with is shown and stored with claimableEmailSent set
MailReturns(p) ==
  /\ gPages[p].mail = "sending"
  /\ \E sent \in BOOLEAN :
       IF sent
       THEN \E updated \in {[gPages[p].mailVault EXCEPT !.claimableEmailSent = JBool(TRUE)]} :
              /\ gMails' = gMails + 1
              /\ gPages' = [gPages EXCEPT ![p] =
                              Rendered([gPages[p] EXCEPT !.mail = "done", !.vault = updated],
                                       gSigner)]
              /\ gStore' = updateVault(gStore, updated)
       ELSE /\ gPages' = [gPages EXCEPT ![p].mail = "done"]
            /\ UNCHANGED <<gMails, gStore>>
  /\ gRecorded' = NotRun
  /\ UNCHANGED <<gTx, gClaim, gTip, gSigner, nonPagesVars>>

\* handleClaim, its transaction accepted by the node: the vault is shown and
\* stored as spent
Claim(p) ==
  /\ gPages[p].pc # "closed" /\ gPages[p].canClaim
  /\ gPages[p].vault # Null /\ gSigner # Null /\ gPages[p].isUnlocked
  /\ CellLive(gTx, gClaim) /\ gClaim = "none"
  /\ gSigner = JStr(AddressOfLock(Output.lock))
  /\ isUnlockConditionSatisfied(SamplePayload.unlock, gTip, 0)
  /\ gClaim' = "sent"
  /\ \E updated \in {[gPages[p].vault EXCEPT !.status = "spent"]} :
       /\ gPages' = [gPages EXCEPT ![p] = Rendered([gPages[p] EXCEPT !.vault = updated], gSigner)]
       /\ gStore' = updateVault(gStore, updated)
  /\ gRecorded' = NotRun
  /\ UNCHANGED <<gTx, gTip, gSigner, gMails, nonPagesVars>>

\* the page is left or the browser reloads it, no email being on its way
ClosePage(p) ==
  /\ gPages[p].pc # "closed" /\ gPages[p].mail # "sending"
  /\ gPages' = [gPages EXCEPT ![p] = ClosedPage]
  /\ gRecorded' = NotRun
  /\ UNCHANGED <<gTx, gClaim, gTip, gSigner, gStore, gMails, nonPagesVars>>

\* VaultListPage mounts: the stored record is shown and, if pending or live,
\* refreshed from the chain; the list shows a new status that differs from
\* the stored one (a throw or a null keeps the cached status)
ListRefresh ==
  /\ gStore # Null /\ gStore.status \in {"pending", "live"}
  /\ \E result \in ResolveOutcomes(gTx, gClaim) :
       IF result \in {Threw, Null} THEN gRecorded' = NotRun
       ELSE \E newStatus \in {ListStatus(result, gStore)} :
              gRecorded' = IF newStatus # gStore.status
                           THEN Recording("list", result, newStatus)
                           ELSE NotRun
  /\ UNCHANGED <<gTx, gClaim, gTip, gSigner, gStore, gPages, gMails, nonPagesVars>>

\* handleImport of the vault's hash, the list not holding it: the record is
\* added; a null or a throw shows an error
Import ==
  /\ gStore = Null /\ gTx # "unknown"
  /\ \E result \in ResolveOutcomes(gTx, gClaim) :
       /\ result \notin {Threw, Null}
       /\ gStore' = ImportedRecord(result)
       /\ gRecorded' = Recording("import", result, ImportStatus(result))
  /\ UNCHANGED <<gTx, gClaim, gTip, gSigner, gPages, gMails, nonPagesVars>>

NextPages ==
  \/ SwitchWallet
  \/ CreateVault
  \/ CreatedElsewhere
  \/ ChainAdvances
  \/ \E p \in Pages : OpenPage(p)
  \/ \E p \in Pages : ResolveReturns(p)
  \/ \E p \in Pages : TipReturns(p)
  \/ \E p \in Pages : MailReturns(p)
  \/ \E p \in Pages : Claim(p)
  \/ \E p \in Pages : ClosePage(p)
  \/ ListRefresh
  \/ Import

InitSpecPages == IdleCodec /\ IdleTimelock /\ IdleResolve /\ IdleEnum /\ IdleCapacity /\ IdleIds /\ IdleOutPoint /\ InitPages

SpecPages == InitSpecPages /\ [][NextPages]_vars

\* a browser with one tab: the steps of a load, once due, are taken (the
\* responses arrive, the promises resolve); the user and the chain may stop
NextOneTab ==
  \/ SwitchWallet
  \/ CreateVault
  \/ CreatedElsewhere
  \/ ChainAdvances
  \/ OpenPage(1)
  \/ ResolveReturns(1)
  \/ TipReturns(1)
  \/ MailReturns(1)
  \/ Claim(1)
  \/ ClosePage(1)
  \/ ListRefresh
  \/ Import

FairSpecOneTab ==
  /\ InitSpecPages
  /\ [][NextOneTab]_vars
  /\ WF_vars(ResolveReturns(1)) /\ WF_vars(TipReturns(1)) /\ WF_vars(MailReturns(1))

(***************************************************************************)
(* Properties of the pages                                                 *)
(***************************************************************************)
\* C21: on every open detail page canClaim is true only if the
\* fetchVaultFromTransaction of this page load returned the vault with
\* isLive = true; a cached record never enables the claim by itself
C21_CacheNeverTrusted ==
  \A p \in Pages :
    gPages[p].canClaim => (gPages[p].onChainData # Null /\ gPages[p].onChainData.isLive)

\* C22: once the record stored for the outpoint has status spent, no step
\* stores it with another status
C22_SpentTerminal ==
  [][(gStore # Null /\ gStore.status = "spent") => (gStore' # Null /\ gStore'.status = "spent")]_vars

\* C23: the email API sends at most one vault-claimable email for the vault,
\* however the loads of its detail page interleave
C23_EmailAtMostOnce == gMails <= 1

\* a page opened on a live, unlocked vault with the wallet of its lock
\* connected, and what ends the wait for canClaim
LoadingClaimable(p) ==
  /\ gPages[p].pc = "resolving"
  /\ CellLive(gTx, gClaim) /\ isUnlockConditionSatisfied(SamplePayload.unlock, gTip, 0)
  /\ gSigner = JStr(AddressOfLock(Output.lock))
LoadEnded(p) ==
  \/ gPages[p].pc = "closed"
  \/ ~CellLive(gTx, gClaim)
  \/ gSigner # JStr(AddressOfLock(Output.lock))
  \/ /\ gPages[p].pc = "loaded"
     /\ \/ gPages[p].onChainData = Null
        \/ ~gPages[p].onChainData.isLive
        \/ ~gPages[p].isUnlocked

\* C26: a detail page opened on a live vault cell whose lock is the connected
\* wallet's and whose unlock condition holds at the tip eventually has
\* canClaim true, unless the page is closed, the wallet changed, the cell
\* spent, or a request of the load failed; with or without a cached record
C26_ClaimableEventually ==
  \A p \in Pages : LoadingClaimable(p) ~> (gPages[p].canClaim \/ LoadEnded(p))

\* C30: a status recorded from a fetchVaultFromTransaction result, by the
\* detail page's load, the list's refresh or the import, is live only if the
\* result has isLive, spent only if its transaction is committed and it is
\* not live, pending only if its transaction is pending or proposed
C30_StatusMatchesResolve ==
  gRecorded # NotRun =>
    /\ gRecorded.status = "live" => gRecorded.isLive
    /\ gRecorded.status = "spent" => (gRecorded.txStatus = "committed" /\ ~gRecorded.isLive)
    /\ gRecorded.status = "pending" => gRecorded.txStatus \in {"pending", "proposed"}

====
